---------------------------- MODULE Spec2Model ----------------------------
(***************************************************************************)
(* Model of the ai-news digest pipeline (strzhao/ai-news).                 *)
(*                                                                         *)
(* The module holds several specifications over one set of variables, one  *)
(* per part of the program:                                                *)
(*   SpecReorder  src/main.py  _reorder_candidates_by_type_preference      *)
(*   SpecCap      src/main.py  _highlight_cap                              *)
(*   SpecKey      src/llm/article_evaluator.py  build_article_cache_key    *)
(*   SpecEval     src/llm/article_evaluator.py  ArticleEvaluator over      *)
(*                src/cache/article_eval_cache.py  ArticleEvalCache        *)
(*   SpecRun      src/main.py  run                                         *)
(*   SpecSign     src/tracking/link_tracker.py  _sign and                  *)
(*                api/_tracker_common.py  verify_signature                 *)
(*   SpecRedirect api/r.py  handler.do_GET on a LinkTracker tracking URL   *)
(*   SpecDedupe   src/process/dedupe.py  dedupe_articles                   *)
(*   SpecUrl      src/process/dedupe.py  normalize_url                     *)
(*   SpecPct      src/main.py  _percentile                                 *)
(*   SpecRetry    the retry loops of ArticleEvaluator.evaluate_articles    *)
(*                and src/integrations/flomo_client.py  FlomoClient.send   *)
(*   SpecFetch    src/fetch/rss_fetcher.py  fetch_articles                 *)
(*   SpecBudget   src/process/source_quality.py                            *)
(*                build_budgeted_source_limits                             *)
(*   SpecClicks   api/r.py  _track_click in concurrent invocations         *)
(*   SpecCron     api/cron_digest.py  _is_authorized and handler._handle   *)
(*   SpecArchive  src/archive/store.py  save_digest_archive,               *)
(*                list_archives and get_archive_item                       *)
(* A specification moves only its own variables; the others stay at the    *)
(* idle values that IdleReorder .. IdleArchive give them.                  *)
(*                                                                         *)
(* Numbers: scores are integers on the 0..100 scale, multipliers are in    *)
(* thousandths (1150 is 1.15), blend and the selection ratio are in        *)
(* hundredths (50 is 0.5), confidence is in hundredths (55 is 0.55).       *)
(***************************************************************************)
EXTENDS Integers, Sequences, FiniteSets, TLC

VARIABLES
    \* _reorder_candidates_by_type_preference
    rpc, candidates, type_multipliers, blend, quality_gap_guard,
    ordered, changed, reordered,
    \* _highlight_cap
    cpc, total_assessed, top_n, ratio_env, min_count_env, cap_result,
    \* build_article_cache_key
    kpc, article_a, article_b, key_a, key_b,
    \* ArticleEvaluator.evaluate_articles and ArticleEvalCache
    epc, cache, clock, articles, pos, attempt, assessments, llm_calls,
    hit_from_cache, stored_before, stored_now, pruned, escaped,
    article_types,
    \* run
    pc, env, deduped, run_assessments, ai_highlights, selection_cap,
    must_read_candidates, fallback_worth_reading, tagged_highlights,
    info_key_counts, title_key_counts, skipped, exit_code,
    report_written, flomo_sent,
    \* link_tracker._sign and _tracker_common.verify_signature
    spc, sign_params, sign_secret, signature, signature_accepted,
    \* api/r.py: handler.do_GET on a URL of LinkTracker.build_tracking_url
    hpc, tracker, tracking_url, mutation, request, handler_env, store, response,
    \* dedupe_articles
    dpc, dd_articles, dd_threshold, dd_pos, dd_deduped, seen_urls,
    normalized_to_article, url_duplicates, title_duplicates, dropped_items,
    dd_stats,
    \* normalize_url
    upc, url_text, url_once, url_twice,
    \* _percentile
    ppc, pct_values, pct_percentile, pct_result,
    \* the retry loops of evaluate_articles and FlomoClient.send
    tpc, eval_max_retries, eval_attempt, eval_last_error, eval_log,
    flomo_max_retries, flomo_attempt, backoff_seconds, flomo_last_error,
    flomo_raised, flomo_log,
    \* fetch_articles
    fpc, fetch_sources, per_source_limits, total_budget, fetch_pos,
    fetched,
    \* build_budgeted_source_limits
    bpc, source_limits, fetch_budget, min_per_source, allocated, rooms,
    remaining, proportional_budget, total_room, budget_pos, budgeted,
    \* concurrent _track_click calls of api/r.py
    click_handlers, click_store,
    \* api/cron_digest.py: handler._handle
    xpc, cron_env, cron_request, cron_status, digest_runs,
    \* src/archive/store.py on the hash and sorted-set store
    apc, hashes, zset_dates, zset_by_date, saved, list_args, list_result,
    item_result

reorderVars == <<rpc, candidates, type_multipliers, blend, quality_gap_guard,
                 ordered, changed, reordered>>
capVars     == <<cpc, total_assessed, top_n, ratio_env, min_count_env, cap_result>>
keyVars     == <<kpc, article_a, article_b, key_a, key_b>>
evalVars    == <<epc, cache, clock, articles, pos, attempt, assessments,
                 llm_calls, hit_from_cache, stored_before, stored_now, pruned,
                 escaped, article_types>>
runVars     == <<pc, env, deduped, run_assessments, ai_highlights, selection_cap,
                 must_read_candidates, fallback_worth_reading, tagged_highlights,
                 info_key_counts, title_key_counts, skipped, exit_code,
                 report_written, flomo_sent>>
signVars    == <<spc, sign_params, sign_secret, signature, signature_accepted>>
firstVars   == <<reorderVars, capVars, keyVars, evalVars, runVars>>
redirectVars == <<hpc, tracker, tracking_url, mutation, request, handler_env,
                  store, response>>
dedupeVars  == <<dpc, dd_articles, dd_threshold, dd_pos, dd_deduped, seen_urls,
                 normalized_to_article, url_duplicates, title_duplicates,
                 dropped_items, dd_stats>>
urlVars     == <<upc, url_text, url_once, url_twice>>
pctVars     == <<ppc, pct_values, pct_percentile, pct_result>>
retryVars   == <<tpc, eval_max_retries, eval_attempt, eval_last_error, eval_log,
                 flomo_max_retries, flomo_attempt, backoff_seconds,
                 flomo_last_error, flomo_raised, flomo_log>>
fetchVars   == <<fpc, fetch_sources, per_source_limits, total_budget,
                 fetch_pos, fetched>>
budgetVars  == <<bpc, source_limits, fetch_budget, min_per_source,
                 allocated, rooms, remaining,
                 proportional_budget, total_room,
                 budget_pos, budgeted>>
clicksVars  == <<click_handlers, click_store>>
cronVars    == <<xpc, cron_env, cron_request, cron_status, digest_runs>>
archiveVars == <<apc, hashes, zset_dates, zset_by_date, saved, list_args,
                 list_result, item_result>>
laterVars   == <<signVars, redirectVars, dedupeVars, urlVars, pctVars,
                 retryVars, fetchVars, budgetVars,
                 clicksVars, cronVars, archiveVars>>
notSignVars     == <<firstVars, redirectVars, dedupeVars, urlVars, pctVars,
                     retryVars, fetchVars, budgetVars,
                     clicksVars, cronVars, archiveVars>>
notRedirectVars == <<firstVars, signVars, dedupeVars, urlVars, pctVars,
                     retryVars, fetchVars, budgetVars,
                     clicksVars, cronVars, archiveVars>>
notDedupeVars   == <<firstVars, signVars, redirectVars, urlVars, pctVars,
                     retryVars, fetchVars, budgetVars,
                     clicksVars, cronVars, archiveVars>>
notUrlVars      == <<firstVars, signVars, redirectVars, dedupeVars, pctVars,
                     retryVars, fetchVars, budgetVars,
                     clicksVars, cronVars, archiveVars>>
notPctVars      == <<firstVars, signVars, redirectVars, dedupeVars, urlVars,
                     retryVars, fetchVars, budgetVars,
                     clicksVars, cronVars, archiveVars>>
notRetryVars    == <<firstVars, signVars, redirectVars, dedupeVars, urlVars,
                     pctVars, fetchVars, budgetVars,
                     clicksVars, cronVars, archiveVars>>
notFetchVars    == <<firstVars, signVars, redirectVars, dedupeVars, urlVars,
                     pctVars, retryVars, budgetVars,
                     clicksVars, cronVars, archiveVars>>
notBudgetVars   == <<firstVars, signVars, redirectVars, dedupeVars, urlVars,
                     pctVars, retryVars, fetchVars,
                     clicksVars, cronVars, archiveVars>>
notClicksVars   == <<firstVars, signVars, redirectVars, dedupeVars, urlVars,
                     pctVars, retryVars, fetchVars,
                     budgetVars, cronVars, archiveVars>>
notCronVars     == <<firstVars, signVars, redirectVars, dedupeVars, urlVars,
                     pctVars, retryVars, fetchVars,
                     budgetVars, clicksVars, archiveVars>>
notArchiveVars  == <<firstVars, signVars, redirectVars, dedupeVars, urlVars,
                     pctVars, retryVars, fetchVars,
                     budgetVars, clicksVars, cronVars>>
vars        == <<firstVars, laterVars>>

(***************************************************************************)
(* Generic helpers                                                         *)
(***************************************************************************)
Max(a, b) == IF a >= b THEN a ELSE b
Min(a, b) == IF a <= b THEN a ELSE b

SeqsUpTo(S, n) == UNION {[1..k -> S] : k \in 0..n}

Range(s) == {s[i] : i \in DOMAIN s}

\* The part of a specification's initial state that belongs to the other parts.
IdleReorder ==
    /\ rpc = "idle" /\ candidates = <<>> /\ type_multipliers = <<>>
    /\ blend = 0 /\ quality_gap_guard = 0 /\ ordered = <<>>
    /\ changed = FALSE /\ reordered = 0
IdleCap ==
    /\ cpc = "idle" /\ total_assessed = 0 /\ top_n = 0 /\ ratio_env = 0
    /\ min_count_env = 0 /\ cap_result = 0
IdleKey ==
    /\ kpc = "idle" /\ article_a = <<>> /\ article_b = <<>>
    /\ key_a = <<>> /\ key_b = <<>>
IdleEval ==
    /\ epc = "idle" /\ cache = <<>> /\ clock = 0 /\ articles = <<>>
    /\ pos = 0 /\ attempt = 0 /\ assessments = <<>> /\ llm_calls = <<>>
    /\ hit_from_cache = {} /\ stored_before = {} /\ stored_now = {}
    /\ pruned = {} /\ escaped = FALSE /\ article_types = {}
IdleRun ==
    /\ pc = "idle" /\ env = <<>> /\ deduped = <<>> /\ run_assessments = <<>>
    /\ ai_highlights = <<>> /\ selection_cap = 0
    /\ must_read_candidates = <<>> /\ fallback_worth_reading = <<>>
    /\ tagged_highlights = <<>> /\ info_key_counts = <<>>
    /\ title_key_counts = <<>> /\ skipped = {} /\ exit_code = -1
    /\ report_written = FALSE /\ flomo_sent = FALSE
IdleSign ==
    /\ spc = "idle" /\ sign_params = <<>> /\ sign_secret = ""
    /\ signature = [secret |-> "", payload |-> <<"-">>]
    /\ signature_accepted = FALSE
IdleRedirect ==
    /\ hpc = "idle" /\ tracker = <<>> /\ tracking_url = <<>> /\ mutation = <<>>
    /\ request = <<>> /\ handler_env = <<>> /\ store = <<>> /\ response = <<>>
IdleFirst == IdleReorder /\ IdleCap /\ IdleKey /\ IdleEval /\ IdleRun
IdleDedupe ==
    /\ dpc = "idle" /\ dd_articles = <<>> /\ dd_threshold = 0 /\ dd_pos = 0
    /\ dd_deduped = <<>> /\ seen_urls = {} /\ normalized_to_article = <<>>
    /\ url_duplicates = 0 /\ title_duplicates = 0 /\ dropped_items = <<>>
    /\ dd_stats = <<>>
IdleUrl ==
    upc = "idle" /\ url_text = <<>> /\ url_once = <<>> /\ url_twice = <<>>
IdlePct ==
    ppc = "idle" /\ pct_values = <<>> /\ pct_percentile = 0 /\ pct_result = 0
IdleRetry ==
    /\ tpc = "idle" /\ eval_max_retries = 0 /\ eval_attempt = 0
    /\ eval_last_error = "" /\ eval_log = <<>> /\ flomo_max_retries = 0
    /\ flomo_attempt = 0 /\ backoff_seconds = 0 /\ flomo_last_error = ""
    /\ flomo_raised = "" /\ flomo_log = <<>>
IdleFetch ==
    fpc = "idle" /\ fetch_sources = <<>> /\ per_source_limits = <<>> /\
    total_budget = 0 /\ fetch_pos = 0 /\ fetched = <<>>
IdleBudget ==
    bpc = "idle" /\ source_limits = <<>> /\ fetch_budget = 0 /\
    min_per_source = 0 /\ allocated = <<>> /\ rooms = <<>> /\ remaining =
    0 /\ proportional_budget = 0 /\ total_room = 0 /\ budget_pos = 0 /\
    budgeted = <<>>
IdleClicks ==
    click_handlers = <<>> /\ click_store = <<>>
IdleCron ==
    xpc = "idle" /\ cron_env = <<>> /\ cron_request = <<>> /\ cron_status
    = 0 /\ digest_runs = 0
IdleArchive ==
    apc = "idle" /\ hashes = <<>> /\ zset_dates = <<>> /\ zset_by_date =
    <<>> /\ saved = {} /\ list_args = <<>> /\ list_result = <<>> /\
    item_result = <<>>
IdleLater == IdleSign /\ IdleRedirect /\ IdleDedupe /\ IdleUrl /\ IdlePct
             /\ IdleRetry /\ IdleFetch /\ IdleBudget /\
             IdleClicks /\ IdleCron /\ IdleArchive
IdleNotSign     == IdleFirst /\ IdleRedirect /\ IdleDedupe /\ IdleUrl /\
                   IdlePct /\ IdleRetry /\ IdleFetch /\
                   IdleBudget /\ IdleClicks /\ IdleCron /\
                   IdleArchive
IdleNotRedirect == IdleFirst /\ IdleSign /\ IdleDedupe /\ IdleUrl /\ IdlePct
                   /\ IdleRetry /\ IdleFetch /\ IdleBudget
                   /\ IdleClicks /\ IdleCron /\
                   IdleArchive
IdleNotDedupe   == IdleFirst /\ IdleSign /\ IdleRedirect /\ IdleUrl /\
                   IdlePct /\ IdleRetry /\ IdleFetch /\
                   IdleBudget /\ IdleClicks /\ IdleCron /\
                   IdleArchive
IdleNotUrl      == IdleFirst /\ IdleSign /\ IdleRedirect /\ IdleDedupe /\
                   IdlePct /\ IdleRetry /\ IdleFetch /\
                   IdleBudget /\ IdleClicks /\ IdleCron /\
                   IdleArchive
IdleNotPct      == IdleFirst /\ IdleSign /\ IdleRedirect /\ IdleDedupe /\
                   IdleUrl /\ IdleRetry /\ IdleFetch /\
                   IdleBudget /\ IdleClicks /\ IdleCron /\
                   IdleArchive
IdleNotRetry    == IdleFirst /\ IdleSign /\ IdleRedirect /\ IdleDedupe /\
                   IdleUrl /\ IdlePct /\ IdleFetch /\
                   IdleBudget /\ IdleClicks /\ IdleCron /\
                   IdleArchive
IdleNotFetch    == IdleFirst /\ IdleSign /\ IdleRedirect /\ IdleDedupe /\
                   IdleUrl /\ IdlePct /\ IdleRetry /\
                   IdleBudget /\ IdleClicks /\ IdleCron /\
                   IdleArchive
IdleNotBudget   == IdleFirst /\ IdleSign /\ IdleRedirect /\ IdleDedupe /\
                   IdleUrl /\ IdlePct /\ IdleRetry /\
                   IdleFetch /\ IdleClicks /\ IdleCron /\
                   IdleArchive
IdleNotClicks   == IdleFirst /\ IdleSign /\ IdleRedirect /\ IdleDedupe /\
                   IdleUrl /\ IdlePct /\ IdleRetry /\
                   IdleFetch /\ IdleBudget /\ IdleCron /\
                   IdleArchive
IdleNotCron     == IdleFirst /\ IdleSign /\ IdleRedirect /\ IdleDedupe /\
                   IdleUrl /\ IdlePct /\ IdleRetry /\
                   IdleFetch /\ IdleBudget /\ IdleClicks
                   /\ IdleArchive
IdleNotArchive  == IdleFirst /\ IdleSign /\ IdleRedirect /\ IdleDedupe /\
                   IdleUrl /\ IdlePct /\ IdleRetry /\
                   IdleFetch /\ IdleBudget /\ IdleClicks
                   /\ IdleCron

(***************************************************************************)
(* src/models.py: the worth vocabulary                                     *)
(***************************************************************************)
WORTH_MUST_READ     == "must_read"
WORTH_WORTH_READING == "worth_reading"
WORTH_SKIP          == "skip"
VALID_WORTH == {WORTH_MUST_READ, WORTH_WORTH_READING, WORTH_SKIP}

(***************************************************************************)
(* src/main.py: _reorder_candidates_by_type_preference                     *)
(***************************************************************************)
MaxCands == 3
CandScores == {70, 73, 76}
CandTypes  == {"benchmark", "research_progress", "other"}
\* type_multipliers as compute_type_multipliers can return them: empty, or a
\* multiplier per clicked type (here the values of the repository's tests).
NoMultipliers   == [t \in {} |-> 1000]
TestMultipliers == [t \in {"benchmark", "research_progress"} |->
                       IF t = "benchmark" THEN 1150 ELSE 900]
MultiplierMaps == {NoMultipliers, TestMultipliers}
Blends == {0, 50}
Guards == {0, 2, 3}

\* A candidate tuple (index, highlight, scored_article, assessment): the model
\* keeps the index, scored_article.id, .score and .primary_type.
Candidate(i, s, t) == [index |-> i, id |-> i, score |-> s, primary_type |-> t]

CandidateLists ==
    {[i \in DOMAIN l |-> Candidate(i - 1, l[i][1], l[i][2])] :
        l \in SeqsUpTo(CandScores \X CandTypes, MaxCands)}

\* _personalized_quality_score, times 100000.
PersonalizedQualityScore(base_quality, primary_type, multipliers, bl) ==
    IF bl <= 0 THEN base_quality * 100000
    ELSE LET multiplier == IF primary_type \in DOMAIN multipliers
                           THEN multipliers[primary_type] ELSE 1000
         IN  base_quality * (100000 + (multiplier - 1000) * bl)

\* key=lambda item: (item[4], item[2].score, -item[0]), reverse=True:
\* TRUE when a sorts before b.
SortsBefore(a, b, multipliers, bl) ==
    LET pa == PersonalizedQualityScore(a.score, a.primary_type, multipliers, bl)
        pb == PersonalizedQualityScore(b.score, b.primary_type, multipliers, bl)
    IN  \/ pa > pb
        \/ pa = pb /\ a.score > b.score
        \/ pa = pb /\ a.score = b.score /\ a.index < b.index

RECURSIVE InsertSorted(_, _, _, _)
InsertSorted(s, c, multipliers, bl) ==
    IF s = <<>> THEN <<c>>
    ELSE IF SortsBefore(c, Head(s), multipliers, bl) THEN <<c>> \o s
    ELSE <<Head(s)>> \o InsertSorted(Tail(s), c, multipliers, bl)

RECURSIVE SortedByPreference(_, _, _)
SortedByPreference(s, multipliers, bl) ==
    IF s = <<>> THEN <<>>
    ELSE InsertSorted(SortedByPreference(Tail(s), multipliers, bl), Head(s),
                      multipliers, bl)

\* The test of the guard loop on one adjacent pair (main.py line 190).
GuardSwapsEitherWay(prev, cur, gap) ==
    cur.score - prev.score > gap \/ prev.score - cur.score > gap

GuardSwaps(prev, cur, gap) == cur.score - prev.score > gap

\* One run of "for idx in range(1, len(ordered))" (main.py 187-192), from idx on.
RECURSIVE GuardPass(_, _, _, _)
GuardPass(s, idx, gap, ch) ==
    IF idx > Len(s) THEN [ordered |-> s, changed |-> ch]
    ELSE IF GuardSwaps(s[idx - 1], s[idx], gap)
         THEN GuardPass([s EXCEPT ![idx - 1] = s[idx], ![idx] = s[idx - 1]],
                        idx + 1, gap, TRUE)
         ELSE GuardPass(s, idx + 1, gap, ch)

\* reordered_count (main.py 194-196).
ReorderedCount(before, after) ==
    Cardinality({i \in DOMAIN before : after[i].id # before[i].id})

InitReorder ==
    /\ rpc = "start"
    /\ candidates \in CandidateLists
    /\ type_multipliers \in MultiplierMaps
    /\ blend \in Blends
    /\ quality_gap_guard \in Guards
    /\ ordered = <<>>
    /\ changed = FALSE
    /\ reordered = 0
    /\ IdleCap /\ IdleKey /\ IdleEval /\ IdleRun /\ IdleLater

\* main.py 163-164: nothing to personalize, the input is returned as it is.
ReorderEarlyReturn ==
    /\ rpc = "start"
    /\ (candidates = <<>> \/ DOMAIN type_multipliers = {} \/ blend <= 0)
    /\ ordered' = candidates
    /\ reordered' = 0
    /\ rpc' = "done"
    /\ UNCHANGED <<candidates, type_multipliers, blend, quality_gap_guard, changed>>
    /\ UNCHANGED <<capVars, keyVars, evalVars, runVars, laterVars>>

\* main.py 166-184: enrich, sort by personalized score, enter the guard loop.
ReorderSort ==
    /\ rpc = "start"
    /\ ~(candidates = <<>> \/ DOMAIN type_multipliers = {} \/ blend <= 0)
    /\ ordered' = SortedByPreference(candidates, type_multipliers, blend)
    /\ changed' = (Max(0, quality_gap_guard) > 0)
    /\ rpc' = "loop"
    /\ UNCHANGED <<candidates, type_multipliers, blend, quality_gap_guard, reordered>>
    /\ UNCHANGED <<capVars, keyVars, evalVars, runVars, laterVars>>

\* main.py 185-192: one iteration of "while changed".
ReorderGuardPass ==
    /\ rpc = "loop"
    /\ changed
    /\ LET r == GuardPass(ordered, 2, Max(0, quality_gap_guard), FALSE)
       IN  /\ ordered' = r.ordered
           /\ changed' = r.changed
    /\ UNCHANGED <<rpc, candidates, type_multipliers, blend, quality_gap_guard, reordered>>
    /\ UNCHANGED <<capVars, keyVars, evalVars, runVars, laterVars>>

\* main.py 194-198: the loop has ended, count the moved positions and return.
ReorderReturn ==
    /\ rpc = "loop"
    /\ ~changed
    /\ reordered' = ReorderedCount(candidates, ordered)
    /\ rpc' = "done"
    /\ UNCHANGED <<candidates, type_multipliers, blend, quality_gap_guard, ordered, changed>>
    /\ UNCHANGED <<capVars, keyVars, evalVars, runVars, laterVars>>

NextReorder ==
    \/ ReorderEarlyReturn
    \/ ReorderSort
    \/ ReorderGuardPass
    \/ ReorderReturn

SpecReorder == InitReorder /\ [][NextReorder]_vars

\* The function has returned from the guarded path (multipliers, blend > 0 and
\* a positive quality_gap_guard).
ReorderGuardedDone ==
    /\ rpc = "done"
    /\ candidates # <<>>
    /\ DOMAIN type_multipliers # {}
    /\ blend > 0
    /\ quality_gap_guard > 0

PositionIn(s, id) == CHOOSE i \in DOMAIN s : s[i].id = id

\* The input list is ranked: base scores do not increase along it.
RankedByBaseScore(s) ==
    \A i \in DOMAIN s : \A j \in DOMAIN s : i < j => s[i].score >= s[j].score

\* C3: with a positive quality_gap_guard, the returned list places no
\* candidate ahead of another candidate, adjacent or not, whose base score is
\* higher by more than the guard.
C3_NoReorderAcrossGuard ==
    ReorderGuardedDone =>
        \A i \in DOMAIN ordered : \A j \in DOMAIN ordered :
            i < j => ~(ordered[j].score - ordered[i].score > quality_gap_guard)

\* C4: two candidates whose base scores differ by more than the guard keep the
\* relative order they had in the input list (stated here for ranked input
\* lists, the case the claim's tests exercise; the claim says it of every
\* input list).
C4_OrderKeptAcrossGuard ==
    (ReorderGuardedDone /\ RankedByBaseScore(candidates)) =>
        \A i \in DOMAIN candidates : \A j \in DOMAIN candidates :
            (/\ i < j
             /\ candidates[i].score - candidates[j].score > quality_gap_guard)
            => PositionIn(ordered, candidates[i].id)
                 < PositionIn(ordered, candidates[j].id)

(***************************************************************************)
(* src/main.py: _highlight_cap                                             *)
(***************************************************************************)
MaxTotal == 12
MaxTopN  == 6
\* HIGHLIGHT_SELECTION_RATIO in hundredths and HIGHLIGHT_MIN_COUNT, as read
\* from the environment (or their defaults 1.0/0.45 and 8/4).
RatioEnvs    == {1, 20, 45, 50, 100, 150}
MinCountEnvs == {0, 1, 2, 4}
TopNs        == -1..MaxTopN

\* Python's round() of the rational n/d (n >= 0, d > 0): half goes to even.
RoundHalfEven(n, d) ==
    LET q == n \div d
        r == n % d
    IN  IF 2 * r < d THEN q
        ELSE IF 2 * r > d THEN q + 1
        ELSE IF q % 2 = 0 THEN q ELSE q + 1

\* main.py 72: ratio = min(1.0, max(0.05, float(...))), in hundredths.
ClampedRatio(r) == Min(100, Max(5, r))

\* main.py 73: minimum = max(1, int(...)).
ClampedMinimum(m) == Max(1, m)

\* Mutant of HighlightCap: the min(top_n, ...) of line 75 is lost.
HighlightCapIgnoringTopN(total, topn, ratio, mincount) ==
    Max(1, Max(ClampedMinimum(mincount),
               RoundHalfEven(total * ClampedRatio(ratio), 100)))

\* main.py 74-75.
HighlightCap(total, topn, ratio, mincount) ==
    LET capped == Max(ClampedMinimum(mincount),
                      RoundHalfEven(total * ClampedRatio(ratio), 100))
    IN  Max(1, Min(topn, capped))

InitCap ==
    /\ cpc = "start"
    /\ total_assessed \in 0..MaxTotal
    /\ top_n \in TopNs
    /\ ratio_env \in RatioEnvs
    /\ min_count_env \in MinCountEnvs
    /\ cap_result = 0
    /\ IdleReorder /\ IdleKey /\ IdleEval /\ IdleRun /\ IdleLater

CallHighlightCap ==
    /\ cpc = "start"
    /\ cap_result' = HighlightCap(total_assessed, top_n, ratio_env, min_count_env)
    /\ cpc' = "done"
    /\ UNCHANGED <<total_assessed, top_n, ratio_env, min_count_env>>
    /\ UNCHANGED <<reorderVars, keyVars, evalVars, runVars, laterVars>>

NextCap == CallHighlightCap

SpecCap == InitCap /\ [][NextCap]_vars

\* C8 as written: for every total_assessed >= 0 and every top_n the cap never
\* exceeds top_n.
C8_CapNeverExceedsTopN ==
    cpc = "done" => cap_result <= top_n

\* C8 amended: for top_n >= 1 the cap is at least 1 and at most top_n; when it
\* is below top_n it is at least the configured minimum (itself at least 1)
\* and within one half of total_assessed * ratio unless the minimum decides
\* it; when top_n cuts it, the minimum or the rounded ratio share reached
\* top_n. For top_n <= 0 the cap is 1.
C8_CapRespectsMinimumRatioAndTopN ==
    cpc = "done" =>
        LET ratio   == IF ratio_env < 5 THEN 5
                       ELSE IF ratio_env > 100 THEN 100 ELSE ratio_env
            minimum == IF min_count_env < 1 THEN 1 ELSE min_count_env
            share   == total_assessed * ratio   \* in hundredths of an article
        IN  /\ cap_result >= 1
            /\ top_n <= 0 => cap_result = 1
            /\ top_n >= 1 =>
                 /\ cap_result <= top_n
                 /\ cap_result < top_n =>
                      /\ cap_result >= minimum
                      /\ 200 * cap_result >= 2 * share - 100
                      /\ cap_result > minimum => 200 * cap_result <= 2 * share + 100
                 /\ cap_result = top_n =>
                      \/ minimum >= top_n
                      \/ 200 * top_n <= 2 * share + 100

\* A call in which top_n is what limits the cap.
C8_Witness ==
    /\ cpc = "done"
    /\ top_n >= 1
    /\ cap_result = top_n
    /\ total_assessed * ratio_env > 100 * top_n + 100
    /\ min_count_env < top_n

(***************************************************************************)
(* src/llm/article_evaluator.py: compute_article_content_hash and          *)
(* build_article_cache_key                                                 *)
(*                                                                         *)
(* A string is a sequence of characters. hashlib.sha256 is taken to be     *)
(* collision free: the digest of a string is the record [sha256 |-> s],    *)
(* and a hexdigest inside a longer string is one character of it.          *)
(***************************************************************************)
MaxFieldLen == 1
KeyChars == {"a", "|", " "}
Whitespace == {" "}

\* str.strip()
RECURSIVE LStrip(_)
LStrip(s) ==
    IF s # <<>> /\ Head(s) \in Whitespace THEN LStrip(Tail(s)) ELSE s

RECURSIVE RStrip(_)
RStrip(s) ==
    IF s # <<>> /\ s[Len(s)] \in Whitespace
    THEN RStrip(SubSeq(s, 1, Len(s) - 1)) ELSE s

Strip(s) == RStrip(LStrip(s))

\* "|".join(parts)
RECURSIVE JoinBar(_)
JoinBar(parts) ==
    IF parts = <<>> THEN <<>>
    ELSE IF Len(parts) = 1 THEN parts[1]
    ELSE parts[1] \o <<"|">> \o JoinBar(Tail(parts))

Sha256Hex(s) == [sha256 |-> s]

\* article_evaluator.py 48-56
ComputeArticleContentHash(article) ==
    Sha256Hex(JoinBar(<<Strip(article.title), Strip(article.summary_raw),
                        Strip(article.lead_paragraph)>>))

\* str.lower(), on the characters the model's strings use.
UpperLetters == <<"A", "B", "C", "D", "E", "F", "G", "H", "I", "J", "K", "L", "M",
                  "N", "O", "P", "Q", "R", "S", "T", "U", "V", "W", "X", "Y", "Z">>
LowerLetters == <<"a", "b", "c", "d", "e", "f", "g", "h", "i", "j", "k", "l", "m",
                  "n", "o", "p", "q", "r", "s", "t", "u", "v", "w", "x", "y", "z">>

LowerChar(c) ==
    IF \E i \in DOMAIN UpperLetters : UpperLetters[i] = c
    THEN LowerLetters[CHOOSE i \in DOMAIN UpperLetters : UpperLetters[i] = c]
    ELSE c

Lower(s) == [i \in DOMAIN s |-> LowerChar(s[i])]

\* article_evaluator.py 59-73
BuildArticleCacheKey(article, model_name, prompt_version) ==
    Sha256Hex(JoinBar(<<Strip(model_name), Strip(prompt_version),
                        Lower(Strip(article.url)),
                        <<ComputeArticleContentHash(article)>> >>))

ModelName     == <<"deepseek-chat">>
PromptVersion == <<"v7">>
KeyUrl        == <<"h", ":", "/", "/", "x", "/", "1">>

KeyArticles ==
    [title : SeqsUpTo(KeyChars, MaxFieldLen),
     summary_raw : SeqsUpTo(KeyChars, MaxFieldLen),
     lead_paragraph : {<<>>, <<"a">>},
     url : {KeyUrl}]

InitKey ==
    /\ kpc = "start"
    /\ article_a \in KeyArticles
    /\ article_b \in KeyArticles
    /\ key_a = <<>>
    /\ key_b = <<>>
    /\ IdleReorder /\ IdleCap /\ IdleEval /\ IdleRun /\ IdleLater

BuildKeys ==
    /\ kpc = "start"
    /\ key_a' = BuildArticleCacheKey(article_a, ModelName, PromptVersion)
    /\ key_b' = BuildArticleCacheKey(article_b, ModelName, PromptVersion)
    /\ kpc' = "done"
    /\ UNCHANGED <<article_a, article_b>>
    /\ UNCHANGED <<reorderVars, capVars, evalVars, runVars, laterVars>>

NextKey == BuildKeys

SpecKey == InitKey /\ [][NextKey]_vars

\* The content of an article as the key reads it: the stripped fields.
StrippedContent(article) ==
    <<Strip(article.title), Strip(article.summary_raw), Strip(article.lead_paragraph)>>

\* C10: for a fixed model, prompt version and URL, two articles get different
\* cache keys if and only if their (stripped) title, summary or lead paragraph
\* differs.
C10_KeyDiffersIffContentDiffers ==
    kpc = "done" =>
        ((key_a # key_b) <=> (StrippedContent(article_a) # StrippedContent(article_b)))

(***************************************************************************)
(* src/llm/article_evaluator.py: ArticleEvaluator.evaluate_articles, over  *)
(* src/cache/article_eval_cache.py: ArticleEvalCache                       *)
(*                                                                         *)
(* The table article_assessments is a function from cache_key to a row     *)
(* [payload, updated_at]; datetime.now() is the counter clock, which every *)
(* set_assessment advances. The cache outlives a call and a process (it is *)
(* an SQLite file), so calls follow one another on the same cache.         *)
(*                                                                         *)
(* History variables, read by no action: stored_before and stored_now are  *)
(* the cache keys stored by earlier calls and by the current call, pruned  *)
(* the keys whose row a prune deleted and no later call stored again,      *)
(* llm_calls the LLM calls of the current call per article id, and         *)
(* hit_from_cache the ids the current call served from the cache.          *)
(***************************************************************************)
MaxBatch       == 2     \* longest article list of one call
MaxClock       == 3     \* no call starts once the clock has reached it
PruneMaxRows   == 1     \* stands for the 5000 of prune(max_rows=5000)
EvalMaxRetries == 2     \* AI_EVAL_MAX_RETRIES, default "2"

\* ArticleEvaluator.article_types: the configured types, with "other".
ArticleTypes == {"benchmark", "research_progress", "other"}

\* The types an evaluator is built with (76-92): those of the configuration
\* file of its run, before and after "benchmark" was taken out of it (a type
\* taken out stays out).
ConfiguredArticleTypes == {ArticleTypes, {"research_progress", "other"}}

EvalArticle(i, src, u, t) ==
    [id |-> i, source_id |-> src, url |-> u, title |-> t,
     summary_raw |-> <<"a">>, lead_paragraph |-> <<>>]

\* Articles 1 and 2 have the same url, title, summary and lead paragraph and
\* come from two sources (the id is a hash of source_id, url and title).
EvalArticles ==
    {EvalArticle(1, "s1", <<"h", ":", "/", "/", "x", "/", "1">>, <<"a">>),
     EvalArticle(2, "s2", <<"H", ":", "/", "/", "X", "/", "1", " ">>, <<"a", " ">>),
     EvalArticle(3, "s1", <<"h", ":", "/", "/", "x", "/", "3">>, <<"a">>),
     EvalArticle(4, "s1", <<"h", ":", "/", "/", "x", "/", "1">>, <<"a", "|">>)}

\* The lists a call is given: articles with distinct ids (run passes the
\* deduplicated articles), at least one.
ArticleLists ==
    {l \in SeqsUpTo(EvalArticles, MaxBatch) \ {<<>>} :
        \A i \in DOMAIN l : \A j \in DOMAIN l : i # j => l[i].id # l[j].id}

\* build_article_cache_key on the articles above, as a table.
CacheKeys ==
    [article \in EvalArticles |->
        BuildArticleCacheKey(article, ModelName, PromptVersion)] @@ <<>>

CacheKeyOf(article) == CacheKeys[article]

\* A JSON value in a numeric field of the response: a number, a text that
\* float() rejects, null, or no such key in the object.
JNum(n)  == [t |-> "number", n |-> n]
JText    == [t |-> "text", n |-> 0]
JNull    == [t |-> "null", n |-> 0]
JMissing == [t |-> "missing", n |-> 0]

\* What client.chat_json gives for one call: an exception of the client, or
\* the decoded JSON value.
LLMRow(w, s, r, roi, conf, pt) ==
    [kind |-> "row", worth |-> w, one_line_summary |-> s, reason_short |-> r,
     reading_roi_score |-> roi, confidence |-> conf, primary_type |-> pt]

LLMFailure(k) ==
    [kind |-> k, worth |-> "", one_line_summary |-> "", reason_short |-> "",
     reading_roi_score |-> JMissing, confidence |-> JMissing, primary_type |-> ""]

LLMResponses ==
    {LLMFailure("request_error"),      \* requests.RequestException -> DeepSeekError
     LLMFailure("invalid_json"),       \* json.JSONDecodeError -> DeepSeekError
     LLMFailure("not_dict"),           \* a JSON list or scalar
     LLMRow("bogus", "s", "r", JNum(80), JNum(90), "benchmark"),
     LLMRow(WORTH_MUST_READ, "", "r", JNum(80), JNum(90), "benchmark"),
     LLMRow(WORTH_MUST_READ, "s", "", JNum(80), JNum(90), "benchmark"),
     LLMRow(WORTH_MUST_READ, "s", "r", JNum(8), JNum(90), "benchmark"),
     LLMRow(WORTH_WORTH_READING, "s", "r", JNum(150), JNum(150), "unknown"),
     LLMRow(WORTH_MUST_READ, "s", "r", JNum(80), JText, "benchmark"),
     LLMRow(WORTH_MUST_READ, "s", "r", JNum(80), JNull, "benchmark")}

\* _coerce_score (article_evaluator.py 25-30) on a number.
CoerceScore(value) ==
    LET score == IF 0 <= value /\ value <= 10 THEN value * 10 ELSE value
    IN  Max(0, Min(100, score))

\* _pick_score (38-45) over the one score key the model keeps: a missing key
\* gives the default, and float() of a text or of null raises
\* ValueError/TypeError, which is caught, and the default is returned.
PickScore(value, default) ==
    IF value.t = "number" THEN CoerceScore(value.n) ELSE default

\* _coerce_confidence (33-35) on a number, in hundredths.
CoerceConfidence(value) == Max(0, Min(100, value))

\* The exception that evaluate_article raises on a response, or "none":
\* chat_json's errors, then _parse_assessment's checks in their order (181-199),
\* then float() of the confidence (245), which is not wrapped.
EvaluateArticleRaises(resp) ==
    IF resp.kind \in {"request_error", "invalid_json"} THEN "DeepSeekError"
    ELSE IF resp.kind # "row" THEN "DeepSeekError"
    ELSE IF resp.worth \notin VALID_WORTH THEN "DeepSeekError"
    ELSE IF resp.one_line_summary = "" THEN "DeepSeekError"
    ELSE IF resp.reason_short = "" THEN "DeepSeekError"
    ELSE IF resp.confidence.t = "text" THEN "ValueError"
    ELSE IF resp.confidence.t = "null" THEN "TypeError"
    ELSE "none"

\* _parse_assessment (180-248) on a row that passes its checks.
ParseAssessment(article_id, row) ==
    [article_id    |-> article_id,
     worth         |-> row.worth,
     quality_score |-> PickScore(row.reading_roi_score, 0),
     confidence    |-> IF row.confidence.t = "missing" THEN CoerceConfidence(0)
                       ELSE CoerceConfidence(row.confidence.n),
     primary_type  |-> LET raw == IF row.primary_type = "" THEN "other"
                                  ELSE row.primary_type
                       IN  IF raw \in article_types THEN raw ELSE "other",
     cache_key     |-> <<>>]

\* ArticleEvalCache.set_assessment (160-219): the payload written, and the
\* upsert of the row under cache_key.
AssessmentPayload(a) ==
    [article_id |-> a.article_id, worth |-> a.worth,
     quality_score |-> a.quality_score, confidence |-> a.confidence,
     primary_type |-> a.primary_type]

SetAssessment(c, key, a, now) ==
    [k \in DOMAIN c \cup {key} |->
        IF k = key THEN [payload |-> AssessmentPayload(a), updated_at |-> now]
        ELSE c[k]]

\* Mutant of CacheHas: the lookup never finds a row.
CacheHasNothing(c, key) == FALSE

\* ArticleEvalCache.get_assessment (128-158): is there a row, and the
\* assessment built from its payload.
CacheHas(c, key) == key \in DOMAIN c

GetAssessment(c, key) ==
    LET payload == c[key].payload
    IN  [article_id    |-> payload.article_id,
         worth         |-> payload.worth,
         quality_score |-> payload.quality_score,
         confidence    |-> payload.confidence,
         primary_type  |-> IF payload.primary_type = "" THEN "other"
                           ELSE payload.primary_type,
         cache_key     |-> key]

\* ArticleEvalCache.prune (221-239): the keys deleted, the oldest updated_at
\* first, when the table holds more than max_rows rows.
PrunedKeys(c, max_rows) ==
    LET total == Cardinality(DOMAIN c)
    IN  IF total <= max_rows THEN {}
        ELSE {k \in DOMAIN c :
                Cardinality({j \in DOMAIN c : c[j].updated_at < c[k].updated_at})
                    < total - max_rows}

Prune(c, max_rows) ==
    [k \in DOMAIN c \ PrunedKeys(c, max_rows) |-> c[k]]

EmptyMap == [x \in {} |-> 0]

MapPut(m, k, v) == [x \in DOMAIN m \cup {k} |-> IF x = k THEN v ELSE m[x]]

InitEval ==
    /\ epc = "idle"
    /\ cache = EmptyMap
    /\ clock = 0
    /\ articles = <<>>
    /\ pos = 0
    /\ attempt = 0
    /\ assessments = EmptyMap
    /\ llm_calls = EmptyMap
    /\ hit_from_cache = {}
    /\ stored_before = {}
    /\ stored_now = {}
    /\ pruned = {}
    /\ escaped = FALSE
    /\ article_types = ArticleTypes
    /\ IdleReorder /\ IdleCap /\ IdleKey /\ IdleRun /\ IdleLater

\* evaluate_articles is called (95-96), in a fresh run of the pipeline, on an
\* evaluator built with the types configured for that run.
StartEvaluate ==
    /\ epc \in {"idle", "returned", "raised"}
    /\ clock < MaxClock
    /\ article_types' \in {types \in ConfiguredArticleTypes : types \subseteq article_types}
    /\ \E list \in ArticleLists :
         /\ articles' = list
         /\ llm_calls' = [id \in {list[i].id : i \in DOMAIN list} |-> 0]
    /\ pos' = 1
    /\ attempt' = 0
    /\ assessments' = EmptyMap
    /\ hit_from_cache' = {}
    /\ stored_before' = stored_before \cup stored_now
    /\ stored_now' = {}
    /\ escaped' = FALSE
    /\ epc' = "loop"
    /\ UNCHANGED <<cache, clock, pruned>>
    /\ UNCHANGED <<reorderVars, capVars, keyVars, runVars, laterVars>>

\* 97-107: the article's row is in the cache.
EvalCacheHit ==
    /\ epc = "loop"
    /\ pos <= Len(articles)
    /\ LET article == articles[pos]
           cache_key == CacheKeyOf(article)
       IN  /\ CacheHas(cache, cache_key)
           /\ assessments' = MapPut(assessments, article.id,
                                    GetAssessment(cache, cache_key))
           /\ hit_from_cache' = hit_from_cache \cup {article.id}
    /\ pos' = pos + 1
    /\ UNCHANGED <<epc, cache, clock, articles, attempt, llm_calls,
                   stored_before, stored_now, pruned, escaped>>
    /\ UNCHANGED <<article_types, reorderVars, capVars, keyVars, runVars, laterVars>>

\* 97-110: no row, the retry loop is entered.
EvalCacheMiss ==
    /\ epc = "loop"
    /\ pos <= Len(articles)
    /\ ~CacheHas(cache, CacheKeyOf(articles[pos]))
    /\ attempt' = 0
    /\ epc' = "attempt"
    /\ UNCHANGED <<cache, clock, articles, pos, assessments, llm_calls,
                   hit_from_cache, stored_before, stored_now, pruned, escaped>>
    /\ UNCHANGED <<article_types, reorderVars, capVars, keyVars, runVars, laterVars>>

\* 111-125: an attempt whose response parses; the assessment is stored.
EvalAttemptStores ==
    /\ epc = "attempt"
    /\ \E resp \in LLMResponses :
         /\ EvaluateArticleRaises(resp) = "none"
         /\ LET article == articles[pos]
                cache_key == CacheKeyOf(article)
                assessment == [ParseAssessment(article.id, resp)
                                  EXCEPT !.cache_key = cache_key]
            IN  /\ cache' = SetAssessment(cache, cache_key, assessment, clock + 1)
                /\ assessments' = MapPut(assessments, article.id, assessment)
                /\ llm_calls' = [llm_calls EXCEPT ![article.id] = @ + 1]
                /\ stored_now' = stored_now \cup {cache_key}
    /\ clock' = clock + 1
    /\ pos' = pos + 1
    /\ epc' = "loop"
    /\ UNCHANGED <<articles, attempt, hit_from_cache, stored_before, pruned,
                   escaped>>
    /\ UNCHANGED <<article_types, reorderVars, capVars, keyVars, runVars, laterVars>>

\* 126-129: DeepSeekError with attempts left; sleep and try again.
EvalAttemptRetries ==
    /\ epc = "attempt"
    /\ attempt < EvalMaxRetries
    /\ \E resp \in LLMResponses : EvaluateArticleRaises(resp) = "DeepSeekError"
    /\ llm_calls' = [llm_calls EXCEPT ![articles[pos].id] = @ + 1]
    /\ attempt' = attempt + 1
    /\ UNCHANGED <<epc, cache, clock, articles, pos, assessments,
                   hit_from_cache, stored_before, stored_now, pruned, escaped>>
    /\ UNCHANGED <<article_types, reorderVars, capVars, keyVars, runVars, laterVars>>

\* 126-133: DeepSeekError on the last attempt; the article is skipped.
EvalAttemptGivesUp ==
    /\ epc = "attempt"
    /\ ~(attempt < EvalMaxRetries)
    /\ \E resp \in LLMResponses : EvaluateArticleRaises(resp) = "DeepSeekError"
    /\ llm_calls' = [llm_calls EXCEPT ![articles[pos].id] = @ + 1]
    /\ pos' = pos + 1
    /\ epc' = "loop"
    /\ UNCHANGED <<cache, clock, articles, attempt, assessments,
                   hit_from_cache, stored_before, stored_now, pruned, escaped>>
    /\ UNCHANGED <<article_types, reorderVars, capVars, keyVars, runVars, laterVars>>

\* 111-126: an exception that is no DeepSeekError is not caught by the loop
\* and leaves evaluate_articles (and run).
EvalAttemptEscapes ==
    /\ epc = "attempt"
    /\ \E resp \in LLMResponses :
         EvaluateArticleRaises(resp) \notin {"none", "DeepSeekError"}
    /\ llm_calls' = [llm_calls EXCEPT ![articles[pos].id] = @ + 1]
    /\ escaped' = TRUE
    /\ epc' = "raised"
    /\ UNCHANGED <<cache, clock, articles, pos, attempt, assessments,
                   hit_from_cache, stored_before, stored_now, pruned>>
    /\ UNCHANGED <<article_types, reorderVars, capVars, keyVars, runVars, laterVars>>

\* 135-136: the list is done; prune and return the assessments.
EvalReturn ==
    /\ epc = "loop"
    /\ pos > Len(articles)
    /\ cache' = Prune(cache, PruneMaxRows)
    /\ pruned' = (pruned \ stored_now) \cup PrunedKeys(cache, PruneMaxRows)
    /\ epc' = "returned"
    /\ UNCHANGED <<clock, articles, pos, attempt, assessments, llm_calls,
                   hit_from_cache, stored_before, stored_now, escaped>>
    /\ UNCHANGED <<article_types, reorderVars, capVars, keyVars, runVars, laterVars>>

NextEval ==
    \/ StartEvaluate
    \/ EvalCacheHit
    \/ EvalCacheMiss
    \/ EvalAttemptStores
    \/ EvalAttemptRetries
    \/ EvalAttemptGivesUp
    \/ EvalAttemptEscapes
    \/ EvalReturn

SpecEval == InitEval /\ [][NextEval]_vars

\* The ids of the articles of the current call that the loop has passed.
PassedIds == {articles[i].id : i \in {j \in DOMAIN articles : j < pos}}

\* C1: no exception leaves evaluate_articles because of one article; when the
\* call returns, every article of the list that the loop passed and that is
\* absent from the returned map is one whose attempts all failed (it had as
\* many LLM calls as the retry loop allows).
C1_OneArticleNeverFailsTheCall ==
    /\ ~escaped
    /\ epc = "returned" =>
         \A i \in DOMAIN articles :
            articles[i].id \notin DOMAIN assessments
                => llm_calls[articles[i].id] >= EvalMaxRetries + 1

\* C9 as written: in a call that returned, every article whose cache key an
\* earlier call stored is served from the cache, with no LLM call for it.
C9_StoredOnceServedFromCacheEver ==
    epc = "returned" =>
        \A i \in DOMAIN articles :
            CacheKeyOf(articles[i]) \in stored_before
                => /\ articles[i].id \in hit_from_cache
                   /\ llm_calls[articles[i].id] = 0

\* C9 amended: an article whose cache key an earlier call stored, and whose
\* row no prune has deleted since, gets no LLM call in the current call, and
\* once the loop has passed it, it is in the map with the assessment read
\* from the cache under its key.
C9_StoredAndNotPrunedServedFromCache ==
    epc \in {"loop", "attempt", "raised"} =>
        \A i \in DOMAIN articles :
            CacheKeyOf(articles[i]) \in stored_before \ pruned
                => /\ llm_calls[articles[i].id] = 0
                   /\ i < pos =>
                        /\ articles[i].id \in hit_from_cache
                        /\ articles[i].id \in DOMAIN assessments
                        /\ assessments[articles[i].id].cache_key
                               = CacheKeyOf(articles[i])
                        /\ assessments[articles[i].id]
                               = GetAssessment(cache, CacheKeyOf(articles[i]))

\* A later call has served from the cache an article that an earlier call
\* stored under another article id (same url and content, other source).
C9_Witness ==
    /\ epc = "loop"
    /\ pos > Len(articles)
    /\ \E i \in DOMAIN articles :
         /\ CacheKeyOf(articles[i]) \in stored_before \ pruned
         /\ articles[i].id \in hit_from_cache
         /\ llm_calls[articles[i].id] = 0
         /\ assessments[articles[i].id].article_id # articles[i].id

(***************************************************************************)
(* src/process/info_cluster.py: the info key and the title key             *)
(***************************************************************************)
\* A URL as urlparse splits it; query is the list of key=value pairs.
Url(scheme, netloc, path, query) ==
    [scheme |-> scheme, netloc |-> netloc, path |-> path, query |-> query,
     fragment |-> <<>>]
NoUrl == Url(<<>>, <<>>, <<>>, <<>>)

TRACKING_PARAM_PREFIXES ==
    {<<"u", "t", "m", "_">>, <<"s", "p", "m">>,
     <<"f", "b", "c", "l", "i", "d">>, <<"g", "c", "l", "i", "d">>,
     <<"r", "e", "f">>}

StartsWith(s, prefix) ==
    Len(s) >= Len(prefix) /\ SubSeq(s, 1, Len(prefix)) = prefix

\* parse_qsl(keep_blank_values=False) followed by the tracking filter.
RECURSIVE FilteredPairs(_)
FilteredPairs(pairs) ==
    IF pairs = <<>> THEN <<>>
    ELSE LET pair == Head(pairs)
             drop == \/ pair[2] = <<>>
                     \/ \E prefix \in TRACKING_PARAM_PREFIXES :
                            StartsWith(Lower(pair[1]), prefix)
         IN  (IF drop THEN <<>> ELSE <<pair>>) \o FilteredPairs(Tail(pairs))

RECURSIVE RStripSlash(_)
RStripSlash(s) ==
    IF s # <<>> /\ s[Len(s)] = "/" THEN RStripSlash(SubSeq(s, 1, Len(s) - 1))
    ELSE s

\* urlencode: k=v joined by "&".
RECURSIVE UrlEncode(_)
UrlEncode(pairs) ==
    IF pairs = <<>> THEN <<>>
    ELSE Head(pairs)[1] \o <<"=">> \o Head(pairs)[2]
         \o (IF Tail(pairs) = <<>> THEN <<>> ELSE <<"&">> \o UrlEncode(Tail(pairs)))

\* _normalize_url (14-31): "" for a URL without scheme or host, else the
\* rebuilt URL as text.
NormalizeInfoUrl(u) ==
    IF u.scheme = <<>> \/ u.netloc = <<>> THEN <<>>
    ELSE LET path  == IF RStripSlash(u.path) = <<>> THEN <<"/">>
                      ELSE RStripSlash(u.path)
             query == UrlEncode(FilteredPairs(u.query))
         IN  Lower(u.scheme) \o <<":", "/", "/">> \o Lower(u.netloc) \o path
             \o (IF query = <<>> THEN <<>> ELSE <<"?">> \o query)

AlnumChars == Range(LowerLetters) \cup
              {"0", "1", "2", "3", "4", "5", "6", "7", "8", "9"}

\* NON_ALNUM_RE.sub(" ", s): every maximal run of other characters becomes
\* one space.
RECURSIVE CollapseNonAlnum(_, _)
CollapseNonAlnum(s, in_run) ==
    IF s = <<>> THEN <<>>
    ELSE IF Head(s) \in AlnumChars
         THEN <<Head(s)>> \o CollapseNonAlnum(Tail(s), FALSE)
         ELSE (IF in_run THEN <<>> ELSE <<" ">>) \o CollapseNonAlnum(Tail(s), TRUE)

\* build_title_key (34-39); the 16 hex digits of the digest stand for the
\* normalized title itself.
BuildTitleKey(title) ==
    LET normalized == Strip(CollapseNonAlnum(Lower(title), FALSE))
    IN  IF normalized = <<>> THEN <<"title:", "empty">>
        ELSE <<"title:">> \o normalized

\* build_info_key (42-47).
BuildInfoKey(article) ==
    IF NormalizeInfoUrl(article.info_url) # <<>>
    THEN NormalizeInfoUrl(article.info_url)
    ELSE IF NormalizeInfoUrl(article.url) # <<>>
    THEN NormalizeInfoUrl(article.url)
    ELSE BuildTitleKey(article.title)

(***************************************************************************)
(* src/main.py: _percentile                                                *)
(***************************************************************************)
RECURSIVE InsertAscending(_, _)
InsertAscending(s, v) ==
    IF s = <<>> THEN <<v>>
    ELSE IF v <= Head(s) THEN <<v>> \o s
    ELSE <<Head(s)>> \o InsertAscending(Tail(s), v)

RECURSIVE SortedAscending(_)
SortedAscending(s) ==
    IF s = <<>> THEN <<>>
    ELSE InsertAscending(SortedAscending(Tail(s)), Head(s))

\* Mutant of Percentile: the order statistic below the index, without
\* interpolation.
PercentileWithoutInterpolation(values, p) ==
    IF values = <<>> THEN 0
    ELSE IF p <= 0 THEN 100 * SortedAscending(values)[1]
    ELSE IF p >= 100 THEN 100 * SortedAscending(values)[Len(values)]
    ELSE 100 * SortedAscending(values)[((Len(values) - 1) * p) \div 100 + 1]

\* _percentile(values, p) times 100, for a whole-number p.
Percentile(values, p) ==
    IF values = <<>> THEN 0
    ELSE IF p <= 0 THEN 100 * SortedAscending(values)[1]
    ELSE IF p >= 100 THEN 100 * SortedAscending(values)[Len(values)]
    ELSE LET sorted_values == SortedAscending(values)
             index100 == (Len(values) - 1) * p
             lower    == index100 \div 100
             weight   == index100 % 100
             upper    == IF weight = 0 THEN lower ELSE lower + 1
         IN  IF lower = upper THEN 100 * sorted_values[lower + 1]
             ELSE sorted_values[lower + 1] * (100 - weight)
                  + sorted_values[upper + 1] * weight

(***************************************************************************)
(* src/main.py: run()                                                      *)
(***************************************************************************)
MaxHighlights == 3     \* longest highlight list the summarizer call returns

MinHighlightScore      == 62   \* MIN_HIGHLIGHT_SCORE, default "62"
MinWorthReadingScore   == 58   \* MIN_WORTH_READING_SCORE, default "58"
MinHighlightConfidence == 55   \* MIN_HIGHLIGHT_CONFIDENCE, default "0.55"
DynamicPercentile      == 70   \* HIGHLIGHT_DYNAMIC_PERCENTILE, default "70"
TypeBlend              == 20   \* TYPE_PERSONALIZATION_BLEND, default "0.2"
TypeQualityGapGuard    == 8    \* TYPE_PERSONALIZATION_QUALITY_GAP_GUARD, "8"

\* The environment of one run: whether DEEPSEEK_API_KEY is set, whether the
\* article types config loads, --top-n, HIGHLIGHT_SELECTION_RATIO (hundredths),
\* HIGHLIGHT_MIN_COUNT and MAX_INFO_DUP_PER_DIGEST.
RunEnv(api_key, types_ok, topn, ratio, mincount, dup) ==
    [api_key |-> api_key, types_ok |-> types_ok, top_n |-> topn,
     ratio_env |-> ratio, min_count_env |-> mincount, max_info_dup_env |-> dup]

RunEnvs ==
    {RunEnv(FALSE, TRUE, 3, 100, 8, 2),
     RunEnv(TRUE, FALSE, 3, 100, 8, 2),
     RunEnv(TRUE, TRUE, 0, 100, 8, 2),
     RunEnv(TRUE, TRUE, 3, 100, 8, 2),
     RunEnv(TRUE, TRUE, 3, 45, 2, 0),
     RunEnv(TRUE, TRUE, 2, 45, 1, 1),
     RunEnv(TRUE, TRUE, -1, 100, 8, 2)}

\* The articles a feed can deliver.  1 and 2 report the same page (the
\* info_url of 2 is the URL of 1 with a tracking parameter, other case and a
\* trailing slash); 2 and 3 carry the same title up to case and punctuation.
RunArticle(id) ==
    CASE id = 1 ->
           [id |-> 1, title |-> <<"a">>,
            url |-> Url(<<"h">>, <<"x">>, <<"/", "p">>, <<>>),
            info_url |-> NoUrl]
      [] id = 2 ->
           [id |-> 2, title |-> <<"H", "!", "w">>,
            url |-> Url(<<"h">>, <<"t">>, <<"/", "s">>, <<>>),
            info_url |-> Url(<<"h">>, <<"X">>, <<"/", "p", "/">>,
                             <<<<<<"U", "t", "m", "_", "s">>, <<"1">>>>>>)]
      [] OTHER ->
           [id |-> 3, title |-> <<"h", " ", "w", "!">>,
            url |-> Url(<<"h">>, <<"y">>, <<"/", "q">>, <<>>),
            info_url |-> NoUrl]

RunArticleIds == {1, 2, 3}
UnknownArticleId == 9

\* The keys _reserve_info_slot computes for each article (370-371).
InfoKeys  == [id \in RunArticleIds |-> BuildInfoKey(RunArticle(id))]
TitleKeys == [id \in RunArticleIds |-> BuildTitleKey(RunArticle(id).title)]

\* deduped after fetch, normalize, dedupe, sort and truncation.
DedupedLists == {<<>>, <<1, 2, 3>>}

Assessment(worth, quality, confidence, primary_type) ==
    [worth |-> worth, quality_score |-> quality, confidence |-> confidence,
     primary_type |-> primary_type]

\* Stands for an article that evaluate_articles left out of its result.
NoAssessment == Assessment("none", 0, 0, "other")

\* What evaluate_articles can return for each article.
AssessmentChoices(id) ==
    CASE id = 1 -> {Assessment(WORTH_MUST_READ, 90, 90, "benchmark"),
                    Assessment(WORTH_MUST_READ, 70, 90, "research_progress"),
                    NoAssessment}
      [] id = 2 -> {Assessment(WORTH_MUST_READ, 90, 90, "other"),
                    Assessment(WORTH_WORTH_READING, 60, 90, "other"),
                    Assessment(WORTH_SKIP, 40, 90, "other")}
      [] OTHER  -> {Assessment(WORTH_WORTH_READING, 60, 80, "benchmark"),
                    Assessment(WORTH_WORTH_READING, 55, 80, "other"),
                    Assessment(WORTH_MUST_READ, 90, 50, "other")}

AssessmentMaps ==
    {EmptyMap} \cup
    UNION {
      {[id \in {i \in RunArticleIds : i # 1 \/ c1 # NoAssessment} |->
            IF id = 1 THEN c1 ELSE IF id = 2 THEN c2 ELSE c3] :
         c1 \in AssessmentChoices(1)} :
      <<c2, c3>> \in AssessmentChoices(2) \X AssessmentChoices(3)}

AIHighlight(article_id, worth) == [article_id |-> article_id, worth |-> worth]

HighlightRows ==
    {AIHighlight(id, WORTH_MUST_READ) : id \in RunArticleIds}
    \cup {AIHighlight(1, WORTH_SKIP), AIHighlight(UnknownArticleId, WORTH_MUST_READ)}

\* parsed[:top_n] (summarizer.py line 194).
SliceTo(s, n) ==
    IF n >= 0 THEN SubSeq(s, 1, Min(n, Len(s)))
    ELSE SubSeq(s, 1, Max(0, Len(s) + n))

\* Mutant of FailureExitCode: "no assessment" returns the code of "no article".
FailureExitCodeMerged(stage) ==
    CASE stage = "client" -> 2
      [] stage = "article_types" -> 2
      [] stage = "fetch" -> 3
      [] stage = "evaluate" -> 3
      [] stage = "summarize" -> 5
      [] OTHER -> 6

\* Exit code of each failing stage (212, 218, 314, 319, 340, 496).
FailureExitCode(stage) ==
    CASE stage = "client" -> 2
      [] stage = "article_types" -> 2
      [] stage = "fetch" -> 3
      [] stage = "evaluate" -> 4
      [] stage = "summarize" -> 5
      [] OTHER -> 6

\* scored_assessments (main.py 348), as a list in article order.
RECURSIVE ScoredAssessments(_, _)
ScoredAssessments(ids, a) ==
    IF ids = <<>> THEN <<>>
    ELSE (IF Head(ids) \in DOMAIN a /\ a[Head(ids)].worth # WORTH_SKIP
          THEN <<a[Head(ids)].quality_score>> ELSE <<>>)
         \o ScoredAssessments(Tail(ids), a)

\* effective_threshold (349-350), times 100.
EffectiveThreshold(scored) ==
    Max(100 * MinHighlightScore,
        IF scored # <<>> THEN Percentile(scored, DynamicPercentile)
        ELSE 100 * MinHighlightScore)

\* Mutant of PassesGate: the confidence test of 391-392 is lost.
PassesGateIgnoringConfidence(a, threshold) ==
    /\ a.worth # WORTH_SKIP
    /\ ~(a.worth = WORTH_MUST_READ /\ 100 * a.quality_score < threshold)
    /\ ~(a.worth = WORTH_WORTH_READING /\ a.quality_score < MinWorthReadingScore)

\* The tests of the candidate loop on an assessment (389-396).
PassesGate(a, threshold) ==
    /\ a.worth # WORTH_SKIP
    /\ ~(a.confidence < MinHighlightConfidence)
    /\ ~(a.worth = WORTH_MUST_READ /\ 100 * a.quality_score < threshold)
    /\ ~(a.worth = WORTH_WORTH_READING /\ a.quality_score < MinWorthReadingScore)

\* The tuple appended for highlight number idx (398-420).
RunCandidate(idx, id, a) ==
    [index |-> idx - 1, id |-> id, score |-> a.quality_score,
     primary_type |-> a.primary_type, worth |-> a.worth]

\* The candidate loop (380-420) from position idx on: the candidates whose
\* assessment is must-read (want_must_read) or anything else.
RECURSIVE GateCandidates(_, _, _, _, _, _)
GateCandidates(hl, idx, ids, a, threshold, want_must_read) ==
    IF idx > Len(hl) THEN <<>>
    ELSE LET h == hl[idx]
             kept == /\ h.worth # WORTH_SKIP
                     /\ h.article_id \in ids
                     /\ h.article_id \in DOMAIN a
                     /\ PassesGate(a[h.article_id], threshold)
                     /\ (a[h.article_id].worth = WORTH_MUST_READ) = want_must_read
         IN  (IF kept THEN <<RunCandidate(idx, h.article_id, a[h.article_id])>>
              ELSE <<>>)
             \o GateCandidates(hl, idx + 1, ids, a, threshold, want_must_read)

\* The guard loop (182-192): passes until one changes nothing.
RECURSIVE GuardLoop(_, _)
GuardLoop(s, gap) ==
    LET pass == GuardPass(s, 2, gap, FALSE)
    IN  IF pass.changed THEN GuardLoop(pass.ordered, gap) ELSE pass.ordered

\* _reorder_candidates_by_type_preference (156-198), the list it returns.
ReorderCandidates(cands, multipliers, bl, gap) ==
    IF cands = <<>> \/ DOMAIN multipliers = {} \/ bl <= 0 THEN cands
    ELSE LET sorted_cands == SortedByPreference(cands, multipliers, bl)
         IN  IF gap > 0 THEN GuardLoop(sorted_cands, gap) ELSE sorted_cands

CounterGet(counter, key) == IF key \in DOMAIN counter THEN counter[key] ELSE 0
CounterInc(counter, key) == MapPut(counter, key, CounterGet(counter, key) + 1)

\* max_info_dup (367).
MaxInfoDup(e) == Max(1, e.max_info_dup_env)

\* Mutant of SlotTaken: no key is ever full.
SlotNeverTaken(counter, key, max_info_dup) == FALSE

\* The test _reserve_info_slot makes on each counter (372-375).
SlotTaken(counter, key, max_info_dup) == CounterGet(counter, key) >= max_info_dup

\* Mutant of CapReached: the loops never stop at the cap.
CapNeverReached(highlights, cap) == FALSE

\* "len(tagged_highlights) >= selection_cap" (446, 454; negated at 449).
CapReached(highlights, cap) == Len(highlights) >= cap

ScoredArticle(c) ==
    [id |-> c.id, score |-> c.score, worth |-> c.worth,
     primary_type |-> c.primary_type]

\* One selection loop (443-447, 450-455) over cands, from the state acc.
RECURSIVE SelectLoop(_, _, _, _)
SelectLoop(cands, acc, cap, max_info_dup) ==
    IF cands = <<>> THEN acc
    ELSE LET c         == Head(cands)
             info_key  == InfoKeys[c.id]
             title_key == TitleKeys[c.id]
         IN  IF \/ SlotTaken(acc.info, info_key, max_info_dup)
                \/ SlotTaken(acc.title, title_key, max_info_dup)
             THEN SelectLoop(Tail(cands),
                             [acc EXCEPT !.skipped = @ \cup {c.index}],
                             cap, max_info_dup)
             ELSE LET next == [highlights |-> Append(acc.highlights, ScoredArticle(c)),
                               info  |-> CounterInc(acc.info, info_key),
                               title |-> CounterInc(acc.title, title_key),
                               skipped |-> acc.skipped]
                  IN  IF CapReached(next.highlights, cap) THEN next
                      ELSE SelectLoop(Tail(cands), next, cap, max_info_dup)

\* Both selection loops (443-456).
SelectHighlightsAlwaysFallback(must_read, fallback, cap, max_info_dup) ==
    LET start == [highlights |-> <<>>, info |-> EmptyMap, title |-> EmptyMap,
                  skipped |-> {}]
    IN  SelectLoop(fallback, SelectLoop(must_read, start, cap, max_info_dup),
                   cap, max_info_dup)

SelectHighlights(must_read, fallback, cap, max_info_dup) ==
    LET start == [highlights |-> <<>>, info |-> EmptyMap, title |-> EmptyMap,
                  skipped |-> {}]
        first == SelectLoop(must_read, start, cap, max_info_dup)
    IN  IF ~CapReached(first.highlights, cap)
        THEN SelectLoop(fallback, first, cap, max_info_dup)
        ELSE first

InitRun ==
    /\ IdleReorder /\ IdleCap /\ IdleKey /\ IdleEval /\ IdleLater
    /\ pc = "client"
    /\ env \in RunEnvs
    /\ deduped = <<>> /\ run_assessments = EmptyMap
    /\ ai_highlights = <<>> /\ selection_cap = 0
    /\ must_read_candidates = <<>> /\ fallback_worth_reading = <<>>
    /\ tagged_highlights = <<>>
    /\ info_key_counts = EmptyMap /\ title_key_counts = EmptyMap
    /\ skipped = {} /\ exit_code = -1
    /\ report_written = FALSE /\ flomo_sent = FALSE

notRunVars == <<reorderVars, capVars, keyVars, evalVars, laterVars>>
selectionVars == <<selection_cap, must_read_candidates, fallback_worth_reading,
                   tagged_highlights, info_key_counts, title_key_counts, skipped>>

\* "return n" of run().
Return(code) ==
    /\ pc' = "exit"
    /\ exit_code' = code

\* 208-212: _build_client raises RuntimeError without DEEPSEEK_API_KEY.
RunNoApiKey ==
    /\ pc = "client" /\ ~env.api_key
    /\ Return(FailureExitCode("client"))
    /\ UNCHANGED <<env, deduped, run_assessments, ai_highlights, selectionVars,
                   report_written, flomo_sent, notRunVars>>

RunClientBuilt ==
    /\ pc = "client" /\ env.api_key
    /\ pc' = "article_types"
    /\ UNCHANGED <<env, deduped, run_assessments, ai_highlights, selectionVars,
                   exit_code, report_written, flomo_sent, notRunVars>>

\* 214-218: load_article_types raises OSError or ValueError.
RunArticleTypesFail ==
    /\ pc = "article_types" /\ ~env.types_ok
    /\ Return(FailureExitCode("article_types"))
    /\ UNCHANGED <<env, deduped, run_assessments, ai_highlights, selectionVars,
                   report_written, flomo_sent, notRunVars>>

\* 220-310: sources, budgets, fetch, normalize, dedupe, sort, truncate.
RunFetch ==
    /\ pc = "article_types" /\ env.types_ok
    /\ deduped' \in DedupedLists
    /\ pc' = "fetch"
    /\ UNCHANGED <<env, run_assessments, ai_highlights, selectionVars,
                   exit_code, report_written, flomo_sent, notRunVars>>

\* 312-314.
RunNoArticles ==
    /\ pc = "fetch" /\ deduped = <<>>
    /\ Return(FailureExitCode("fetch"))
    /\ UNCHANGED <<env, deduped, run_assessments, ai_highlights, selectionVars,
                   report_written, flomo_sent, notRunVars>>

\* 316: evaluator.evaluate_articles(deduped) returns.
RunEvaluate ==
    /\ pc = "fetch" /\ deduped # <<>>
    /\ run_assessments' \in AssessmentMaps
    /\ pc' = "evaluate"
    /\ UNCHANGED <<env, deduped, ai_highlights, selectionVars,
                   exit_code, report_written, flomo_sent, notRunVars>>

\* 316: evaluate_articles lets an exception other than DeepSeekError out
\* (EvalAttemptEscapes); run() catches nothing here.
RunEvaluateRaises ==
    /\ pc = "fetch" /\ deduped # <<>>
    /\ pc' = "raised"
    /\ UNCHANGED <<env, deduped, run_assessments, ai_highlights, selectionVars,
                   exit_code, report_written, flomo_sent, notRunVars>>

\* 317-319.
RunNoAssessments ==
    /\ pc = "evaluate" /\ DOMAIN run_assessments = {}
    /\ Return(FailureExitCode("evaluate"))
    /\ UNCHANGED <<env, deduped, run_assessments, ai_highlights, selectionVars,
                   report_written, flomo_sent, notRunVars>>

\* 329-340: build_digest_content raises DeepSeekError: the call failed, the
\* summary was empty, a worth label was invalid, or no highlight was left
\* after parsed[:top_n].
RunSummarizerFails ==
    /\ pc = "evaluate" /\ DOMAIN run_assessments # {}
    /\ Return(FailureExitCode("summarize"))
    /\ UNCHANGED <<env, deduped, run_assessments, ai_highlights, selectionVars,
                   report_written, flomo_sent, notRunVars>>

\* 329-337: build_digest_content returns the highlights, sorted by rank and
\* cut to top_n.
RunSummarize ==
    /\ pc = "evaluate" /\ DOMAIN run_assessments # {}
    /\ \E parsed \in SeqsUpTo(HighlightRows, MaxHighlights) :
          /\ SliceTo(parsed, env.top_n) # <<>>
          /\ ai_highlights' = SliceTo(parsed, env.top_n)
    /\ pc' = "gate"
    /\ UNCHANGED <<env, deduped, run_assessments, selectionVars,
                   exit_code, report_written, flomo_sent, notRunVars>>

\* 342-420: thresholds, selection_cap and the candidate loop.
RunGate ==
    /\ pc = "gate"
    /\ LET scored    == ScoredAssessments(deduped, run_assessments)
           threshold == EffectiveThreshold(scored)
       IN  /\ selection_cap' = HighlightCap(Len(scored), env.top_n,
                                            env.ratio_env, env.min_count_env)
           /\ must_read_candidates' =
                 GateCandidates(ai_highlights, 1, Range(deduped),
                                run_assessments, threshold, TRUE)
           /\ fallback_worth_reading' =
                 GateCandidates(ai_highlights, 1, Range(deduped),
                                run_assessments, threshold, FALSE)
    /\ pc' = "reorder"
    /\ UNCHANGED <<env, deduped, run_assessments, ai_highlights,
                   tagged_highlights, info_key_counts, title_key_counts, skipped,
                   exit_code, report_written, flomo_sent, notRunVars>>

\* 422-433: both candidate lists go through the type-preference reorder.
RunReorder ==
    /\ pc = "reorder"
    /\ must_read_candidates' =
          ReorderCandidates(must_read_candidates, TestMultipliers, TypeBlend,
                            TypeQualityGapGuard)
    /\ fallback_worth_reading' =
          ReorderCandidates(fallback_worth_reading, TestMultipliers, TypeBlend,
                            TypeQualityGapGuard)
    /\ pc' = "select"
    /\ UNCHANGED <<env, deduped, run_assessments, ai_highlights, selection_cap,
                   tagged_highlights, info_key_counts, title_key_counts, skipped,
                   exit_code, report_written, flomo_sent, notRunVars>>

\* 443-456: the two selection loops.
RunSelect ==
    /\ pc = "select"
    /\ LET picked == SelectHighlights(must_read_candidates, fallback_worth_reading,
                                      selection_cap, MaxInfoDup(env))
       IN  /\ tagged_highlights' = picked.highlights
           /\ info_key_counts'   = picked.info
           /\ title_key_counts'  = picked.title
           /\ skipped'           = picked.skipped
    /\ pc' = "publish"
    /\ UNCHANGED <<env, deduped, run_assessments, ai_highlights, selection_cap,
                   must_read_candidates, fallback_worth_reading,
                   exit_code, report_written, flomo_sent, notRunVars>>

\* 458-492: the report is written; the digest goes to flomo when syncing is
\* on and FlomoClient raises nothing.
RunPublish ==
    /\ pc = "publish"
    /\ report_written' = TRUE
    /\ flomo_sent' \in BOOLEAN
    /\ pc' = "published"
    /\ UNCHANGED <<env, deduped, run_assessments, ai_highlights, selectionVars,
                   exit_code, notRunVars>>

\* 494-496.
RunNoHighlights ==
    /\ pc = "published" /\ tagged_highlights = <<>>
    /\ Return(FailureExitCode("select"))
    /\ UNCHANGED <<env, deduped, run_assessments, ai_highlights, selectionVars,
                   report_written, flomo_sent, notRunVars>>

\* 498.
RunSucceeds ==
    /\ pc = "published" /\ tagged_highlights # <<>>
    /\ Return(0)
    /\ UNCHANGED <<env, deduped, run_assessments, ai_highlights, selectionVars,
                   report_written, flomo_sent, notRunVars>>

NextRun ==
    \/ RunNoApiKey
    \/ RunClientBuilt
    \/ RunArticleTypesFail
    \/ RunFetch
    \/ RunNoArticles
    \/ RunEvaluate
    \/ RunEvaluateRaises
    \/ RunNoAssessments
    \/ RunSummarizerFails
    \/ RunSummarize
    \/ RunGate
    \/ RunReorder
    \/ RunSelect
    \/ RunPublish
    \/ RunNoHighlights
    \/ RunSucceeds

SpecRun == InitRun /\ [][NextRun]_vars

\* ---- properties of run() ----

\* C2: when run() returns, the exit code names the first stage that failed:
\* 2 when the API key is missing, 3 when no article is left after fetch,
\* normalize and dedupe, 4 when no assessment was produced, 5 when the
\* summarizer raised DeepSeekError, 6 when no highlight was selected; the codes
\* are non-zero and pairwise distinct, and 0 is returned only with at least one
\* selected highlight.
C2_ExitCodeNamesFailedStage ==
    pc = "exit" =>
        /\ exit_code \in {0, 2, 3, 4, 5, 6}
        /\ ~env.api_key => exit_code = 2
        /\ (env.api_key /\ env.types_ok /\ deduped = <<>>) => exit_code = 3
        /\ (deduped # <<>> /\ DOMAIN run_assessments = {}) => exit_code = 4
        /\ (DOMAIN run_assessments # {} /\ ai_highlights = <<>>) => exit_code = 5
        /\ (ai_highlights # <<>> /\ tagged_highlights = <<>>) => exit_code = 6
        /\ exit_code = 0 => tagged_highlights # <<>>
        /\ exit_code = 2 => (~env.api_key \/ ~env.types_ok)
        /\ exit_code = 3 => (env.api_key /\ deduped = <<>>)
        /\ exit_code = 4 => (deduped # <<>> /\ DOMAIN run_assessments = {})
        /\ exit_code = 5 => (DOMAIN run_assessments # {} /\ ai_highlights = <<>>)
        /\ exit_code = 6 => (ai_highlights # <<>> /\ tagged_highlights = <<>>)

\* A run that passed every earlier stage and ended without a highlight.
C2_Witness ==
    /\ pc = "exit" /\ exit_code = 6
    /\ env.api_key /\ deduped # <<>> /\ DOMAIN run_assessments # {}
    /\ ai_highlights # <<>>

\* C5: every article of the final highlight list has an assessment whose worth
\* is not skip, whose confidence is at least MIN_HIGHLIGHT_CONFIDENCE, and
\* whose quality score is at least max(MIN_HIGHLIGHT_SCORE, the
\* HIGHLIGHT_DYNAMIC_PERCENTILE-th percentile of the non-skip quality scores)
\* when it is must-read, at least MIN_WORTH_READING_SCORE when it is
\* worth-reading.
C5_HighlightsPassedTheGate ==
    \A i \in DOMAIN tagged_highlights :
        LET id == tagged_highlights[i].id
            nonskip == ScoredAssessments(deduped, run_assessments)
        IN  /\ id \in DOMAIN run_assessments
            /\ run_assessments[id].worth # WORTH_SKIP
            /\ run_assessments[id].confidence >= MinHighlightConfidence
            /\ run_assessments[id].worth = WORTH_MUST_READ =>
                  /\ run_assessments[id].quality_score >= MinHighlightScore
                  /\ 100 * run_assessments[id].quality_score
                        >= Percentile(nonskip, DynamicPercentile)
            /\ run_assessments[id].worth = WORTH_WORTH_READING =>
                  run_assessments[id].quality_score >= MinWorthReadingScore

\* A finished run with a selected highlight whose summarizer list also named a
\* low-confidence article, a must-read article under the percentile but over
\* the floor, and a worth-reading article under its floor.
C5_Witness ==
    /\ pc = "exit" /\ tagged_highlights # <<>>
    /\ \E i \in DOMAIN ai_highlights :
          /\ ai_highlights[i].article_id \in DOMAIN run_assessments
          /\ run_assessments[ai_highlights[i].article_id].confidence
                < MinHighlightConfidence
    /\ \E i \in DOMAIN ai_highlights :
          LET id == ai_highlights[i].article_id
          IN  /\ ai_highlights[i].worth # WORTH_SKIP
              /\ id \in DOMAIN run_assessments
              /\ run_assessments[id].worth = WORTH_MUST_READ
              /\ run_assessments[id].quality_score >= MinHighlightScore
              /\ 100 * run_assessments[id].quality_score
                    < Percentile(ScoredAssessments(deduped, run_assessments),
                                 DynamicPercentile)

\* C6: the final highlight list never holds more than
\* _highlight_cap(number of non-skip assessments, top_n) articles.
C6_HighlightsWithinSelectionCap ==
    Len(tagged_highlights) <=
        HighlightCap(Len(ScoredAssessments(deduped, run_assessments)),
                     env.top_n, env.ratio_env, env.min_count_env)

\* A finished run whose candidates outnumber the cap, none of them refused for
\* a duplicate key, and whose list is exactly as long as the cap.
C6_Witness ==
    /\ pc = "exit"
    /\ Len(must_read_candidates) + Len(fallback_worth_reading) > selection_cap
    /\ must_read_candidates # <<>> /\ fallback_worth_reading # <<>>
    /\ skipped = {}
    /\ Len(tagged_highlights) = selection_cap

HighlightsWithInfoKey(key) ==
    {i \in DOMAIN tagged_highlights :
        InfoKeys[tagged_highlights[i].id] = key}

HighlightsWithTitleKey(key) ==
    {i \in DOMAIN tagged_highlights :
        TitleKeys[tagged_highlights[i].id] = key}

\* C7: in the final highlight list at most max(1, MAX_INFO_DUP_PER_DIGEST)
\* articles share an info key and at most that many share a title key, and
\* the two counters hold exactly the selected articles: a refused candidate
\* is counted under neither key.
C7_AtMostMaxInfoDupPerKey ==
    pc \in {"publish", "published", "exit"} =>
        /\ \A id \in RunArticleIds :
              /\ Cardinality(HighlightsWithInfoKey(InfoKeys[id]))
                    <= MaxInfoDup(env)
              /\ Cardinality(HighlightsWithTitleKey(TitleKeys[id]))
                    <= MaxInfoDup(env)
              /\ CounterGet(info_key_counts, InfoKeys[id])
                    = Cardinality(HighlightsWithInfoKey(InfoKeys[id]))
              /\ CounterGet(title_key_counts, TitleKeys[id])
                    = Cardinality(HighlightsWithTitleKey(TitleKeys[id]))
        /\ \A key \in DOMAIN info_key_counts : HighlightsWithInfoKey(key) # {}
        /\ \A key \in DOMAIN title_key_counts : HighlightsWithTitleKey(key) # {}

\* A finished run under the default limit of 2 in which two highlights share
\* an info key and a third candidate was refused.
C7_Witness ==
    /\ pc = "exit" /\ env.max_info_dup_env = 2
    /\ skipped # {}
    /\ \E id \in RunArticleIds :
          Cardinality(HighlightsWithInfoKey(InfoKeys[id])) = 2

(***************************************************************************)
(* src/tracking/link_tracker.py and api/_tracker_common.py: signing        *)
(***************************************************************************)
\* Text is a sequence of tokens: a word ("http", "a") stands for its letters,
\* every other token is one character.  quote_plus leaves words alone, turns
\* a space into "+" and every other character into its %XX escape.
QuotePlusToken(c) ==
    CASE c = " " -> "+"
      [] c = "&" -> "%26"
      [] c = "=" -> "%3D"
      [] c = ":" -> "%3A"
      [] c = "/" -> "%2F"
      [] c = "?" -> "%3F"
      [] c = "#" -> "%23"
      [] c = "[" -> "%5B"
      [] c = "]" -> "%5D"
      [] c = "+" -> "%2B"
      [] c = ";" -> "%3B"
      [] OTHER -> c

QuotePlus(s) == [i \in DOMAIN s |-> QuotePlusToken(s[i])]

\* The keys of the signed parameters, as sorted() orders them.
SignedKeyOrder == <<"aid", "ch", "d", "pt", "sid", "u">>

\* "k1=v1&k2=v2..." for the entries of params kept in sorted key order.
RECURSIVE JoinEntries(_, _, _)
JoinEntries(params, keys, first) ==
    IF keys = <<>> THEN <<>>
    ELSE (IF first THEN <<>> ELSE <<"&">>)
         \o <<Head(keys), "=">> \o QuotePlus(params[Head(keys)])
         \o JoinEntries(params, Tail(keys), FALSE)

\* link_tracker._canonical_query (13-14): urlencode of every sorted item.
TrackerCanonicalQuery(params) ==
    LET Present(k) == k \in DOMAIN params
    IN  JoinEntries(params, SelectSeq(SignedKeyOrder, Present), TRUE)

\* _tracker_common.canonical_query (98-101): only the entries whose value is
\* not blank.
CanonicalQuery(params) ==
    LET Kept(k) == k \in DOMAIN params /\ Strip(params[k]) # <<>>
    IN  JoinEntries(params, SelectSeq(SignedKeyOrder, Kept), TRUE)

\* hmac.new(secret, payload, sha256).hexdigest(): 64 hex digits that stand for
\* the pair they were computed from.
HmacSha256Hex(secret, payload) == [secret |-> secret, payload |-> payload]
NoSignature == [secret |-> "", payload |-> <<"-">>]
SignatureLength(sig) == IF sig = NoSignature THEN 0 ELSE 64

\* link_tracker._sign (17-19).
Sign(params, secret) == HmacSha256Hex(secret, TrackerCanonicalQuery(params))

\* _tracker_common.sign_params (104-106).
SignParams(params, secret) == HmacSha256Hex(secret, CanonicalQuery(params))

\* _tracker_common.verify_signature (109-117).
VerifySignature(params, provided_sig, secret) ==
    IF SignatureLength(provided_sig) # 64 THEN FALSE
    ELSE SignParams(params, secret) = provided_sig

SignedKeys == Range(SignedKeyOrder)
SignValues == {<<>>, <<" ">>, <<"a">>, <<"a", "&", " ", "b">>}
SignSecrets == {"k1", "k2"}

\* Parameter maps: all six keys, or the five that build_tracking_url signs.
SignParamMaps ==
    [SignedKeys -> SignValues] \cup [SignedKeys \ {"pt"} -> SignValues]

InitSign ==
    /\ IdleNotSign
    /\ spc = "start"
    /\ sign_params \in SignParamMaps
    /\ sign_secret \in SignSecrets
    /\ signature = NoSignature
    /\ signature_accepted = FALSE

\* _sign(params, secret).
SignStep ==
    /\ spc = "start"
    /\ signature' = Sign(sign_params, sign_secret)
    /\ spc' = "signed"
    /\ UNCHANGED <<sign_params, sign_secret, signature_accepted, notSignVars>>

\* verify_signature(params, signature, secret) on what was signed.
VerifyStep ==
    /\ spc = "signed"
    /\ signature_accepted' = VerifySignature(sign_params, signature, sign_secret)
    /\ spc' = "verified"
    /\ UNCHANGED <<sign_params, sign_secret, signature, notSignVars>>

NextSign == SignStep \/ VerifyStep

SpecSign == InitSign /\ [][NextSign]_vars

\* C11: the signature _sign computes for a parameter map and a secret is
\* accepted by verify_signature for the same map and secret.
C11_SignedParamsVerify ==
    spc = "verified" => signature_accepted

(***************************************************************************)
(* urllib.parse on token text: urlparse, parse_qsl, urlencode, urlunparse  *)
(***************************************************************************)
\* Words whose letters are not all lower case, and their lower() forms.
UpperWords == <<"HTTP", "HTTPS", "E.com", "UTM_s", "REF">>
LowerWords == <<"http", "https", "e.com", "utm_s", "ref">>

LowerToken(c) ==
    IF \E i \in DOMAIN UpperWords : UpperWords[i] = c
    THEN LowerWords[CHOOSE i \in DOMAIN UpperWords : UpperWords[i] = c]
    ELSE LowerChar(c)

LowerText(s) == [i \in DOMAIN s |-> LowerToken(s[i])]

\* Tokens that stand for words of scheme characters starting with a letter,
\* and the one-character tokens a scheme may hold after its first letter.
WordTokens == ((Range(UpperWords) \cup Range(LowerWords)) \ {"UTM_s", "utm_s"})
              \cup {"ftp", "t.co", "a", "b", "c", "x", "id", "evil", "javascript"}

SchemeChars == {"+", "-", ".", "0", "1", "2"}

\* First position of token c in s, 0 when absent.
IndexOf(s, c) ==
    IF \E i \in DOMAIN s : s[i] = c
    THEN CHOOSE i \in DOMAIN s : s[i] = c /\ \A j \in 1..(i - 1) : s[j] # c
    ELSE 0

\* Last position of token c in s, 0 when absent.
LastIndexOf(s, c) ==
    IF \E i \in DOMAIN s : s[i] = c
    THEN CHOOSE i \in DOMAIN s : s[i] = c /\ \A j \in (i + 1)..Len(s) : s[j] # c
    ELSE 0

Before(s, i) == SubSeq(s, 1, i - 1)
After(s, i)  == SubSeq(s, i + 1, Len(s))

\* First position of s at which one of the tokens of delims stands, else
\* Len(s) + 1.
FirstOfAny(s, delims) ==
    IF \E i \in DOMAIN s : s[i] \in delims
    THEN CHOOSE i \in DOMAIN s :
            s[i] \in delims /\ \A j \in 1..(i - 1) : s[j] \notin delims
    ELSE Len(s) + 1

\* unquote_plus of one token.
UnquotePlusToken(c) ==
    CASE c = "+" -> " "
      [] c = "%26" -> "&"
      [] c = "%3D" -> "="
      [] c = "%3A" -> ":"
      [] c = "%2F" -> "/"
      [] c = "%3F" -> "?"
      [] c = "%23" -> "#"
      [] c = "%5B" -> "["
      [] c = "%5D" -> "]"
      [] c = "%2B" -> "+"
      [] c = "%3B" -> ";"
      [] c = "%20" -> " "
      [] OTHER -> c

UnquotePlus(s) == [i \in DOMAIN s |-> UnquotePlusToken(s[i])]

\* urllib.parse uses_params and uses_netloc, as far as the schemes of the
\* modelled texts go.
UsesParams == {<<>>, <<"http">>, <<"https">>, <<"ftp">>}

UsesNetloc == {<<>>, <<"http">>, <<"https">>, <<"ftp">>}

\* s.partition(c): the text before the first c and the text after it.
Partition(s, c) ==
    IF IndexOf(s, c) > 0
    THEN [before |-> Before(s, IndexOf(s, c)), after |-> After(s, IndexOf(s, c))]
    ELSE [before |-> s, after |-> <<>>]

\* urlsplit: the scheme is the text before the first ":" when that text is a
\* letter followed by scheme characters.
SplitSchemeAt(stripped, colon) ==
    IF /\ colon > 1
       /\ stripped[1] \in WordTokens
       /\ \A i \in 2..(colon - 1) : stripped[i] \in WordTokens \cup SchemeChars
    THEN [scheme |-> LowerText(Before(stripped, colon)),
          rest   |-> After(stripped, colon)]
    ELSE [scheme |-> <<>>, rest |-> stripped]

SplitScheme(stripped) == SplitSchemeAt(stripped, IndexOf(stripped, ":"))

\* urlsplit and _splitnetloc: after "//" the network location runs up to the
\* first of "/", "?" and "#".
SplitNetlocAt(after2, netend) ==
    [netloc |-> Before(after2, netend),
     rest   |-> SubSeq(after2, netend, Len(after2))]

SplitNetlocOf(after2) == SplitNetlocAt(after2, FirstOfAny(after2, {"/", "?", "#"}))

SplitNetloc(rest) ==
    IF Len(rest) >= 2 /\ rest[1] = "/" /\ rest[2] = "/"
    THEN SplitNetlocOf(SubSeq(rest, 3, Len(rest)))
    ELSE [netloc |-> <<>>, rest |-> rest]

\* urlparse and _splitparams: the parameters start at the first ";" of the
\* last path segment, for the schemes that use parameters.
SemiAfterSlash(rest, slash) ==
    IF slash > 0
    THEN IF IndexOf(After(rest, slash), ";") > 0
         THEN slash + IndexOf(After(rest, slash), ";")
         ELSE 0
    ELSE IndexOf(rest, ";")

SemiIndex(scheme, rest) ==
    IF scheme \notin UsesParams THEN 0
    ELSE SemiAfterSlash(rest, LastIndexOf(rest, "/"))

SplitParamsAt(rest, semi) ==
    [path   |-> IF semi > 0 THEN Before(rest, semi) ELSE rest,
     params |-> IF semi > 0 THEN After(rest, semi) ELSE <<>>]

SplitParams(scheme, rest) == SplitParamsAt(rest, SemiIndex(scheme, rest))

\* The result of urlparse.  raises is TRUE where urlsplit raises ValueError:
\* a bracket in the network location that does not enclose an IPv6 address
\* (no token text holds one).
ParseResult(scheme, netloc, path_params, query, fragment) ==
    [scheme   |-> scheme,
     netloc   |-> netloc,
     path     |-> path_params.path,
     params   |-> path_params.params,
     query    |-> query,
     fragment |-> fragment,
     raises   |-> "[" \in Range(netloc) \/ "]" \in Range(netloc)]

\* urlsplit followed by urlparse's split of the path parameters, in the
\* order of urlsplit: scheme, network location, fragment, query.
ParseFromQuery(scheme, netloc, fragment, q) ==
    ParseResult(scheme, netloc, SplitParams(scheme, q.before), q.after, fragment)

ParseFromFragment(scheme, netloc, f) ==
    ParseFromQuery(scheme, netloc, f.after, Partition(f.before, "?"))

ParseFromNetloc(scheme, n) ==
    ParseFromFragment(scheme, n.netloc, Partition(n.rest, "#"))

ParseFromScheme(s) == ParseFromNetloc(s.scheme, SplitNetloc(s.rest))

UrlParse(url) == ParseFromScheme(SplitScheme(LStrip(url)))

\* urlunparse.
UrlUnparse(p) ==
    LET with_params == IF p.params # <<>> THEN p.path \o <<";">> \o p.params
                       ELSE p.path
        starts_2slash == Len(with_params) >= 2 /\ with_params[1] = "/"
                         /\ with_params[2] = "/"
        uses_netloc == p.scheme \in UsesNetloc
        with_netloc ==
            IF p.netloc # <<>> \/ (p.scheme # <<>> /\ uses_netloc /\ ~starts_2slash)
            THEN <<"/", "/">> \o p.netloc
                 \o (IF with_params # <<>> /\ with_params[1] # "/"
                     THEN <<"/">> ELSE <<>>)
                 \o with_params
            ELSE with_params
        with_scheme == IF p.scheme # <<>> THEN p.scheme \o <<":">> \o with_netloc
                       ELSE with_netloc
        with_query  == IF p.query # <<>> THEN with_scheme \o <<"?">> \o p.query
                       ELSE with_scheme
    IN  IF p.fragment # <<>> THEN with_query \o <<"#">> \o p.fragment
        ELSE with_query

\* parse_qsl(query, keep_blank_values=False): the name=value fields between
\* "&", unquoted, without those whose value is empty.
RECURSIVE ParseQsl(_)
ParseQsl(query) ==
    IF query = <<>> THEN <<>>
    ELSE LET amp    == FirstOfAny(query, {"&"})
             field  == Before(query, amp)
             eq     == IndexOf(field, "=")
             name   == IF eq > 0 THEN Before(field, eq) ELSE field
             value  == IF eq > 0 THEN After(field, eq) ELSE <<>>
             rest   == IF amp > Len(query) THEN <<>> ELSE After(query, amp)
         IN  (IF value = <<>> THEN <<>>
              ELSE <<<<UnquotePlus(name), UnquotePlus(value)>>>>)
             \o ParseQsl(rest)

\* urlencode(pairs, doseq=True).
RECURSIVE UrlEncodePairs(_)
UrlEncodePairs(pairs) ==
    IF pairs = <<>> THEN <<>>
    ELSE QuotePlus(Head(pairs)[1]) \o <<"=">> \o QuotePlus(Head(pairs)[2])
         \o (IF Tail(pairs) = <<>> THEN <<>>
             ELSE <<"&">> \o UrlEncodePairs(Tail(pairs)))

\* key.lower().startswith(TRACKING_PARAM_PREFIXES): the first word of the
\* name begins with utm_, spm, fbclid, gclid or ref.
TrackingWords == {"utm_s", "ref"}
HasTrackingPrefix(name) == name # <<>> /\ LowerToken(name[1]) \in TrackingWords

DropTracking(pairs) ==
    LET Kept(pair) == ~HasTrackingPrefix(pair[1])
    IN  SelectSeq(pairs, Kept)

(***************************************************************************)
(* src/process/dedupe.py: normalize_url                                    *)
(***************************************************************************)
\* normalize_url (25-39) on the result of urlparse.
NormalizeParsed(parsed) ==
    UrlUnparse([scheme   |-> LowerText(parsed.scheme),
                netloc   |-> LowerText(parsed.netloc),
                path     |-> IF RStripSlash(parsed.path) = <<>> THEN <<"/">>
                             ELSE RStripSlash(parsed.path),
                params   |-> parsed.params,
                query    |-> UrlEncodePairs(DropTracking(ParseQsl(parsed.query))),
                fragment |-> <<>>])

\* normalize_url (23-39).
NormalizeUrl(url) == NormalizeParsed(UrlParse(Strip(url)))

(***************************************************************************)
(* api/_tracker_common.py and api/r.py: the redirect handler               *)
(***************************************************************************)
\* query_value (28-30): the first value parse_qs finds for the key, stripped.
QueryValue(query, key) ==
    LET Named(pair) == pair[1] = <<key>>
        values == SelectSeq(ParseQsl(query), Named)
    IN  IF values = <<>> THEN <<>> ELSE Strip(values[1][2])

\* Query names of the modelled target URLs in ascending order.
QueryNameOrder == <<"a", "b", "id", "x">>

NameRank(name) ==
    IF name # <<>> /\ \E i \in DOMAIN QueryNameOrder : QueryNameOrder[i] = name[1]
    THEN CHOOSE i \in DOMAIN QueryNameOrder : QueryNameOrder[i] = name[1]
    ELSE 0

\* kept.sort(key=lambda item: item[0]): a stable sort on the name.
RECURSIVE InsertByName(_, _)
InsertByName(sorted, pair) ==
    IF sorted = <<>> THEN <<pair>>
    ELSE IF NameRank(pair[1]) < NameRank(Head(sorted)[1])
         THEN <<pair>> \o sorted
         ELSE <<Head(sorted)>> \o InsertByName(Tail(sorted), pair)

RECURSIVE SortByName(_)
SortByName(pairs) ==
    IF pairs = <<>> THEN <<>>
    ELSE InsertByName(SortByName(SubSeq(pairs, 1, Len(pairs) - 1)),
                      pairs[Len(pairs)])

\* _tracker_common.normalize_url (70-95): the raw text comes back when it has
\* no scheme or no network location, and when urlparse raises.
ApiNormalizeUrl(raw) ==
    LET parsed == UrlParse(raw)
        kept   == SortByName(DropTracking(ParseQsl(parsed.query)))
        path   == IF RStripSlash(parsed.path) = <<>> THEN <<"/">>
                  ELSE RStripSlash(parsed.path)
    IN  IF parsed.raises \/ parsed.scheme = <<>> \/ parsed.netloc = <<>>
        THEN raw
        ELSE UrlUnparse([scheme   |-> LowerText(parsed.scheme),
                         netloc   |-> LowerText(parsed.netloc),
                         path     |-> path,
                         params   |-> <<>>,
                         query    |-> UrlEncodePairs(kept),
                         fragment |-> <<>>])

\* hash_info_key (120-121): the digest stands for the text it was taken of.
HashInfoKey(url) == [sha256 |-> url]

\* r._signed_params (20-28).
SignedParamsOf(query) == [k \in SignedKeys |-> QueryValue(query, k)]

\* required_keys (228) and the test on them (229).
RequiredKeys == {"u", "sid", "aid", "d", "ch"}

MissingRequired(params) == \E k \in RequiredKeys : Strip(params[k]) = <<>>

\* The target test of do_GET (233-242).
ValidTarget(u) ==
    /\ Strip(u) # <<>>
    /\ \/ StartsWith(ApiNormalizeUrl(u), <<"http", ":", "/", "/">>)
       \/ StartsWith(ApiNormalizeUrl(u), <<"https", ":", "/", "/">>)

\* legacy_params (244-250).
LegacyParams(params) == [k \in RequiredKeys |-> params[k]]

\* The signature test of do_GET (251).
SignatureVerifies(params, sig, secret) ==
    \/ VerifySignature(params, sig, secret)
    \/ VerifySignature(LegacyParams(params), sig, secret)

\* The click store: one hash of counters per kind of key for the day, and the
\* keys that were given a time to live.
EmptyStore == [source |-> <<>>, article |-> <<>>, meta |-> <<>>, type |-> <<>>,
               ttl |-> {}]

HIncrBy(key, field) == [op |-> "hincrby", key |-> key, field |-> field]
Expire(key)         == [op |-> "expire", key |-> key]

\* Mutant of ApplyCall: the store writes 1 instead of adding 1.
ApplyCallOverwriting(st, call) ==
    IF call.op = "hincrby"
    THEN [st EXCEPT ![call.key] = MapPut(@, call.field, 1)]
    ELSE [st EXCEPT !.ttl = @ \cup {call.key}]

\* The store after one call: HINCRBY and EXPIRE each run as one command.
ApplyCall(st, call) ==
    IF call.op = "hincrby"
    THEN [st EXCEPT ![call.key] = CounterInc(@, call.field)]
    ELSE [st EXCEPT !.ttl = @ \cup {call.key}]

\* The store after the first n of the calls went through.
RECURSIVE ApplyCalls(_, _, _)
ApplyCalls(st, calls, n) ==
    IF n = 0 \/ calls = <<>> THEN st
    ELSE ApplyCalls(ApplyCall(st, Head(calls)), Tail(calls), n - 1)

\* Mutant of InvalidSignatureCalls: the rejected request is counted as a click.
InvalidSignatureCallsCountingClick(params) ==
    <<HIncrBy("meta", "invalid_sig"), HIncrBy("meta", "total"), Expire("meta")>>

\* The store calls of the invalid-signature branch (255-257).
InvalidSignatureCalls(params) ==
    <<HIncrBy("meta", "invalid_sig"), Expire("meta")>>

\* The store calls of _track_click (205-216).
TrackCalls(params) ==
    <<HIncrBy("source", params["sid"]), Expire("source"),
      HIncrBy("article", HashInfoKey(ApiNormalizeUrl(params["u"]))),
      Expire("article"),
      HIncrBy("meta", "total"), Expire("meta")>>
    \o (IF Strip(params["pt"]) # <<>>
        THEN <<HIncrBy("type", Strip(params["pt"])), Expire("type")>>
        ELSE <<>>)

\* The numbers of calls that can have gone through when the handler is done
\* with them: all of them, or those before the first one that raised.
CallsDone(calls) == IF handler_env.upstash THEN 0..Len(calls) ELSE {0}

\* LinkTracker.enabled (34-35); the base URL is configured.
TrackerEnabled(t) == t.signing_secret # ""

\* The parameters build_tracking_url signs (42-48).
DigestDate == <<"d1">>
Channel    == <<"ch1">>

TrackerParams(article) ==
    [k \in RequiredKeys |->
        CASE k = "u"   -> Strip(article.url)
          [] k = "sid" -> article.source_id
          [] k = "aid" -> article.id
          [] k = "d"   -> DigestDate
          [] k = "ch"  -> Channel]

TargetUrls ==
    {<<"https", ":", "/", "/", "e.com", "/", "a">>,
     <<"http", ":", "/", "/", "[", "a">>,
     <<"javascript", ":", "a">>,
     <<" ">>}

TrackedArticles ==
    [url : TargetUrls, source_id : {<<"s1">>, <<"s2">>}, id : {<<"a1">>}]

\* A store in which one click on an article of source s1 was counted.
StoreAfterOneClick ==
    [source  |-> (<<"s1">> :> 1),
     article |-> (HashInfoKey(<<"https", ":", "/", "/", "e.com", "/", "a">>) :> 1),
     meta    |-> ("total" :> 1),
     type    |-> <<>>,
     ttl     |-> {"source", "article", "meta"}]

NoResponse == [status |-> 0, location |-> <<>>, error |-> ""]
NoMutation == [kind |-> "none", key |-> "", value |-> <<>>]

InitRedirect ==
    /\ IdleNotRedirect
    /\ hpc = "start"
    /\ tracker \in [signing_secret : {"", "k1"}, article : TrackedArticles]
    /\ tracking_url = [tracked |-> FALSE, query |-> <<>>, sig |-> NoSignature]
    /\ mutation = NoMutation
    /\ request  = [query |-> <<>>, sig |-> NoSignature,
                   accept_html |-> FALSE, bot_ua |-> FALSE]
    /\ handler_env \in [secret : {"", "k1", "k2"}, upstash : BOOLEAN]
    /\ store \in {EmptyStore, StoreAfterOneClick}
    /\ response = NoResponse

\* build_tracking_url (37-51) when the tracker is off or the URL is blank: the
\* link stays the target URL and no request reaches the handler.
BuildPlainUrl ==
    /\ hpc = "start"
    /\ ~TrackerEnabled(tracker) \/ Strip(tracker.article.url) = <<>>
    /\ hpc' = "plain"
    /\ UNCHANGED <<tracker, tracking_url, mutation, request, handler_env, store,
                   response, notRedirectVars>>

\* build_tracking_url (37-51).
BuildTrackingUrl ==
    /\ hpc = "start"
    /\ TrackerEnabled(tracker) /\ Strip(tracker.article.url) # <<>>
    /\ LET params == TrackerParams(tracker.article)
       IN  tracking_url' = [tracked |-> TRUE,
                            query   |-> TrackerCanonicalQuery(params),
                            sig     |-> Sign(params, tracker.signing_secret)]
    /\ hpc' = "built"
    /\ UNCHANGED <<tracker, mutation, request, handler_env, store, response,
                   notRedirectVars>>

\* The name=value pairs of the tracking URL's query, in its order.
TrackingPairs ==
    LET params  == TrackerParams(tracker.article)
        Present(k) == k \in DOMAIN params
        keys    == SelectSeq(SignedKeyOrder, Present)
    IN  [i \in DOMAIN keys |-> <<<<keys[i]>>, params[keys[i]]>>]

\* The values a parameter is changed to or added with.
MutationValues(key, old) ==
    IF key = "u" THEN {<<"https", ":", "/", "/", "evil", "/">>, old \o <<" ">>}
    ELSE {<<"x">>, old \o <<" ">>}

PairIndex(pairs, key) ==
    IF \E i \in DOMAIN pairs : pairs[i][1] = <<key>>
    THEN CHOOSE i \in DOMAIN pairs : pairs[i][1] = <<key>>
    ELSE 0

\* The pairs after the mutation: the value of one parameter changed, one
\* name=value field added at the end, or the field of one parameter removed.
MutatedPairs(pairs, m) ==
    LET at == PairIndex(pairs, m.key)
        NotIt(pair) == pair[1] # <<m.key>>
    IN  CASE m.kind = "change" -> [pairs EXCEPT ![at] = <<<<m.key>>, m.value>>]
          [] m.kind = "add"    -> Append(pairs, <<<<m.key>>, m.value>>)
          [] m.kind = "remove" -> SelectSeq(pairs, NotIt)
          [] OTHER             -> pairs

Mutations ==
    {NoMutation}
    \cup {[kind |-> "change", key |-> k, value |-> v] :
            k \in RequiredKeys,
            v \in UNION {MutationValues(k2, TrackerParams(tracker.article)[k2]) :
                            k2 \in RequiredKeys}}
    \cup {[kind |-> "add", key |-> k, value |-> <<"x">>] : k \in SignedKeys}
    \cup {[kind |-> "remove", key |-> k, value |-> <<>>] : k \in RequiredKeys}

\* A client requests the tracking URL, as built or with one parameter
\* mutated, with or without a browser's Accept header and a bot's User-Agent.
SendRequest ==
    /\ hpc = "built"
    /\ \E m \in Mutations, accept_html \in BOOLEAN, bot_ua \in BOOLEAN :
        /\ m.kind = "change" =>
             m.value \in MutationValues(m.key, TrackerParams(tracker.article)[m.key])
        /\ mutation' = m
        /\ request' = [query |-> IF m.kind = "none" THEN tracking_url.query
                                 ELSE UrlEncodePairs(MutatedPairs(TrackingPairs, m)),
                       sig |-> tracking_url.sig,
                       accept_html |-> accept_html, bot_ua |-> bot_ua]
    /\ hpc' = "requested"
    /\ UNCHANGED <<tracker, tracking_url, handler_env, store, response,
                   notRedirectVars>>

\* _respond_json (31-37), _redirect (40-43), _render_redirect_page (184-191)
\* and what a client gets when do_GET raises.
RespondJson(status, error) == [status |-> status, location |-> <<>>, error |-> error]
Redirect(target_url)       == [status |-> 302, location |-> target_url, error |-> ""]
RedirectPage(target_url)   == [status |-> 200, location |-> target_url, error |-> ""]
Uncaught(error)            == [status |-> 0, location |-> <<>>, error |-> error]

Answer(r) ==
    /\ response' = r
    /\ hpc' = "done"
    /\ UNCHANGED <<tracker, tracking_url, mutation, request, handler_env,
                   notRedirectVars>>

\* do_GET (221-224).
HandleMissingSecret ==
    /\ hpc = "requested"
    /\ handler_env.secret = ""
    /\ store' = store
    /\ Answer(RespondJson(500, "Missing TRACKER_SIGNING_SECRET"))

\* do_GET (226-231).
HandleMissingParams ==
    /\ hpc = "requested"
    /\ handler_env.secret # ""
    /\ MissingRequired(SignedParamsOf(request.query))
    /\ store' = store
    /\ Answer(RespondJson(400, "Missing required query params"))

\* do_GET (233-242).
HandleInvalidTarget ==
    /\ hpc = "requested"
    /\ handler_env.secret # ""
    /\ LET params == SignedParamsOf(request.query)
       IN  ~MissingRequired(params) /\ ~ValidTarget(params["u"])
    /\ store' = store
    /\ Answer(RespondJson(400, "Invalid target URL"))

\* do_GET (244-261).
HandleInvalidSignature ==
    /\ hpc = "requested"
    /\ handler_env.secret # ""
    /\ LET params == SignedParamsOf(request.query)
       IN  /\ ~MissingRequired(params) /\ ValidTarget(params["u"])
           /\ ~SignatureVerifies(params, request.sig, handler_env.secret)
           /\ \E done \in CallsDone(InvalidSignatureCalls(params)) :
                store' = ApplyCalls(store, InvalidSignatureCalls(params), done)
    /\ Answer(RespondJson(400, "Invalid signature"))

\* do_GET (263-266).
HandleSkipTracking ==
    /\ hpc = "requested"
    /\ handler_env.secret # ""
    /\ LET params == SignedParamsOf(request.query)
       IN  /\ ~MissingRequired(params) /\ ValidTarget(params["u"])
           /\ SignatureVerifies(params, request.sig, handler_env.secret)
           /\ request.bot_ua
           /\ store' = store
           /\ Answer(Redirect(params["u"]))

\* do_GET (268-278) with _track_click (194-216) and
\* _build_redirect_page_html (53-60), whose urlparse is outside every try.
HandleTracked ==
    /\ hpc = "requested"
    /\ handler_env.secret # ""
    /\ LET params == SignedParamsOf(request.query)
       IN  /\ ~MissingRequired(params) /\ ValidTarget(params["u"])
           /\ SignatureVerifies(params, request.sig, handler_env.secret)
           /\ ~request.bot_ua
           /\ \E done \in CallsDone(TrackCalls(params)) :
                store' = ApplyCalls(store, TrackCalls(params), done)
           /\ Answer(IF request.accept_html
                     THEN IF UrlParse(params["u"]).raises
                          THEN Uncaught("ValueError")
                          ELSE RedirectPage(params["u"])
                     ELSE Redirect(params["u"]))

NextRedirect ==
    \/ BuildPlainUrl
    \/ BuildTrackingUrl
    \/ SendRequest
    \/ HandleMissingSecret
    \/ HandleMissingParams
    \/ HandleInvalidTarget
    \/ HandleInvalidSignature
    \/ HandleSkipTracking
    \/ HandleTracked

SpecRedirect == InitRedirect /\ [][NextRedirect]_vars

\* The handler is done with a request for a tracking URL whose signing secret
\* is the handler's.
HandledWithSameSecret ==
    hpc = "done" /\ handler_env.secret = tracker.signing_secret

\* C12: once a parameter of a tracking URL was changed, added or removed, the
\* handler answers 400 "Invalid signature".
C12_MutationInvalidatesSignature ==
    (HandledWithSameSecret /\ mutation.kind # "none")
        => response = RespondJson(400, "Invalid signature")

\* The request passed the handler's tests on the secret, the required
\* parameters and the target, and its signature verifies.
ValidRequest ==
    LET params == SignedParamsOf(request.query)
    IN  /\ handler_env.secret # ""
        /\ ~MissingRequired(params) /\ ValidTarget(params["u"])
        /\ SignatureVerifies(params, request.sig, handler_env.secret)

\* The handler has a secret and the request's signature does not verify.
SignatureFails ==
    /\ handler_env.secret # ""
    /\ ~SignatureVerifies(SignedParamsOf(request.query), request.sig,
                          handler_env.secret)

\* Every counter of the two stores is the same but invalid_sig, which is the
\* same or one more.
OnlyInvalidSigCounted(before, after) ==
    /\ after.source = before.source
    /\ after.article = before.article
    /\ after.type = before.type
    /\ \A f \in (DOMAIN before.meta \cup DOMAIN after.meta) \ {"invalid_sig"} :
         CounterGet(after.meta, f) = CounterGet(before.meta, f)
    /\ CounterGet(after.meta, "invalid_sig")
         \in {CounterGet(before.meta, "invalid_sig"),
              CounterGet(before.meta, "invalid_sig") + 1}

C14_TrackingNeverBlocksRedirect ==
    (hpc = "done" /\ ValidRequest)
        => response \in {Redirect(SignedParamsOf(request.query)["u"]),
                         RedirectPage(SignedParamsOf(request.query)["u"])}

(***************************************************************************)
(* src/process/dedupe.py: _title_similarity and dedupe_articles            *)
(***************************************************************************)
\* _normalized_title (42-44).
NormalizedTitle(title) == Strip(CollapseNonAlnum(Lower(title), FALSE))

\* a[i .. i+k-1] = b[j .. j+k-1]
IsMatch(a, b, i, j, k) == \A n \in 0..(k - 1) : a[i + n] = b[j + n]

\* SequenceMatcher.find_longest_match on a[alo..ahi] and b[blo..bhi]: the
\* longest common block, the one that starts earliest in a and then earliest
\* in b; size 0 when there is none.  No character is junk: the automatic junk
\* heuristic needs a second sequence of 200 characters.
FindLongestMatch(a, b, alo, ahi, blo, bhi) ==
    LET blocks == {c \in (alo..ahi) \X (blo..bhi) \X (1..Len(a)) :
                      /\ c[1] + c[3] - 1 <= ahi
                      /\ c[2] + c[3] - 1 <= bhi
                      /\ IsMatch(a, b, c[1], c[2], c[3])}
    IN  IF blocks = {} THEN [i |-> alo, j |-> blo, size |-> 0]
        ELSE LET best == CHOOSE c \in blocks :
                            \A o \in blocks :
                                \/ c[3] > o[3]
                                \/ c[3] = o[3] /\ c[1] < o[1]
                                \/ c[3] = o[3] /\ c[1] = o[1] /\ c[2] <= o[2]
             IN  [i |-> best[1], j |-> best[2], size |-> best[3]]

\* The sum of the sizes of SequenceMatcher.get_matching_blocks: the longest
\* match, then the blocks to its left and to its right.
RECURSIVE MatchedCount(_, _, _, _, _, _)
MatchedCount(a, b, alo, ahi, blo, bhi) ==
    IF alo > ahi \/ blo > bhi THEN 0
    ELSE LET m == FindLongestMatch(a, b, alo, ahi, blo, bhi)
         IN  IF m.size = 0 THEN 0
             ELSE m.size
                  + MatchedCount(a, b, alo, m.i - 1, blo, m.j - 1)
                  + MatchedCount(a, b, m.i + m.size, ahi, m.j + m.size, bhi)

\* SequenceMatcher(None, a, b).ratio() as the pair matches, length: the ratio
\* is 2.0 * matches / length, and 1.0 when length is 0.
Ratio(a, b) ==
    [matches |-> MatchedCount(a, b, 1, Len(a), 1, Len(b)),
     length  |-> Len(a) + Len(b)]

\* _title_similarity (47-48).
TitleSimilarity(title_a, title_b) ==
    Ratio(NormalizedTitle(title_a), NormalizedTitle(title_b))

\* ratio >= threshold, the threshold in hundredths.
RatioAtLeast(ratio, threshold) ==
    IF ratio.length = 0 THEN 100 >= threshold
    ELSE 200 * ratio.matches >= threshold * ratio.length

\* title_similarity_threshold (53), in hundredths.
DefaultTitleSimilarityThreshold == 93

MaxArticles == 3

DedupeTitles ==
    {<<"a", "b", "c", "d", "e", "f", "g">>,
     <<"a", "b", "c", "d", "e", "f", "g", "h">>,
     <<"a", "b", "c", "d", "e", "f", "g", "h", "i">>,
     <<"A", "b", "c", "d", "e", "f", "g", "!">>}

DedupeUrls ==
    {<<"https", ":", "/", "/", "e.com", "/", "a">>,
     <<"HTTPS", ":", "/", "/", "E.com", "/", "a", "/", "?", "utm_s", "=", "1", "#", "f">>,
     <<"https", ":", "/", "/", "e.com", "/", "b">>,
     <<"https", ":", "/", "/", "e.com", "/", "c">>,
     <<"http", ":", "/", "/", "[", "a">>}

\* normalize_url and _title_similarity on the titles and URLs above, as
\* tables.
NormalizedUrls == [u \in DedupeUrls |-> NormalizeUrl(u)] @@ <<>>

\* urlparse raises inside normalize_url (24).
NormalizeUrlRaises == [u \in DedupeUrls |-> UrlParse(Strip(u)).raises] @@ <<>>

TitleRatios ==
    [t \in DedupeTitles \X DedupeTitles |-> TitleSimilarity(t[1], t[2])] @@ <<>>

Similar(article, existing, threshold) ==
    RatioAtLeast(TitleRatios[<<article.title, existing.title>>], threshold)

\* The articles of an input list: the id of each is its position.
DedupeInputs ==
    UNION {[1..n -> [title : DedupeTitles, url : DedupeUrls]] : n \in 0..MaxArticles}

DedupeArticle(input, i) == [id |-> i, title |-> input[i].title, url |-> input[i].url]

InitDedupe ==
    /\ IdleNotDedupe
    /\ dpc = "loop"
    /\ \E input \in DedupeInputs :
         dd_articles = [i \in DOMAIN input |-> DedupeArticle(input, i)]
    /\ dd_threshold \in {DefaultTitleSimilarityThreshold, 95}
    /\ dd_pos = 1
    /\ dd_deduped = <<>>
    /\ seen_urls = {}
    /\ normalized_to_article = <<>>
    /\ url_duplicates = 0
    /\ title_duplicates = 0
    /\ dropped_items = <<>>
    /\ dd_stats = <<>>

\* Mutant of SeenUrl: no URL counts as seen.
SeenUrlNever(normalized, seen) == FALSE

\* normalized in seen_urls (65).
SeenUrl(normalized, seen) == normalized \in seen

\* Mutant of FirstSimilar: only the article kept last is compared.
FirstSimilarToLastKept(article, kept, threshold) ==
    IF kept # <<>> /\ Similar(article, kept[Len(kept)], threshold)
    THEN Len(kept) ELSE 0

\* The loop over deduped (86-92): the position of the first kept article whose
\* title is similar, 0 when there is none.
FirstSimilar(article, kept, threshold) ==
    IF \E k \in DOMAIN kept : Similar(article, kept[k], threshold)
    THEN CHOOSE k \in DOMAIN kept :
            /\ Similar(article, kept[k], threshold)
            /\ \A n \in 1..(k - 1) : ~Similar(article, kept[n], threshold)
    ELSE 0

DroppedItem(reason, article, matched) ==
    [reason |-> reason, article_id |-> article.id,
     matched_article_id |-> matched.id]

\* One pass of the loop that ends with the first continue (64-81).
DedupeUrlDuplicate ==
    /\ dpc = "loop" /\ dd_pos <= Len(dd_articles)
    /\ ~NormalizeUrlRaises[dd_articles[dd_pos].url]
    /\ LET article    == dd_articles[dd_pos]
           normalized == NormalizedUrls[article.url]
       IN  /\ SeenUrl(normalized, seen_urls)
           /\ url_duplicates' = url_duplicates + 1
           /\ dropped_items' = Append(dropped_items,
                DroppedItem("url_duplicate", article,
                            normalized_to_article[normalized]))
    /\ dd_pos' = dd_pos + 1
    /\ UNCHANGED <<dpc, dd_articles, dd_threshold, dd_deduped, seen_urls,
                   normalized_to_article, title_duplicates, dd_stats,
                   notDedupeVars>>

\* One pass that ends with the second continue (83-109).
DedupeTitleSimilar ==
    /\ dpc = "loop" /\ dd_pos <= Len(dd_articles)
    /\ ~NormalizeUrlRaises[dd_articles[dd_pos].url]
    /\ LET article    == dd_articles[dd_pos]
           normalized == NormalizedUrls[article.url]
           match      == FirstSimilar(article, dd_deduped, dd_threshold)
       IN  /\ ~SeenUrl(normalized, seen_urls)
           /\ match > 0
           /\ title_duplicates' = title_duplicates + 1
           /\ dropped_items' = Append(dropped_items,
                DroppedItem("title_similar", article, dd_deduped[match]))
    /\ dd_pos' = dd_pos + 1
    /\ UNCHANGED <<dpc, dd_articles, dd_threshold, dd_deduped, seen_urls,
                   normalized_to_article, url_duplicates, dd_stats,
                   notDedupeVars>>

\* One pass that keeps the article (111-113).
DedupeKeep ==
    /\ dpc = "loop" /\ dd_pos <= Len(dd_articles)
    /\ ~NormalizeUrlRaises[dd_articles[dd_pos].url]
    /\ LET article    == dd_articles[dd_pos]
           normalized == NormalizedUrls[article.url]
       IN  /\ ~SeenUrl(normalized, seen_urls)
           /\ FirstSimilar(article, dd_deduped, dd_threshold) = 0
           /\ seen_urls' = seen_urls \cup {normalized}
           /\ normalized_to_article' = MapPut(normalized_to_article, normalized, article)
           /\ dd_deduped' = Append(dd_deduped, article)
    /\ dd_pos' = dd_pos + 1
    /\ UNCHANGED <<dpc, dd_articles, dd_threshold, url_duplicates,
                   title_duplicates, dropped_items, dd_stats, notDedupeVars>>

\* normalize_url (64) raises ValueError, and so does dedupe_articles.
DedupeRaises ==
    /\ dpc = "loop" /\ dd_pos <= Len(dd_articles)
    /\ NormalizeUrlRaises[dd_articles[dd_pos].url]
    /\ dpc' = "raised"
    /\ UNCHANGED <<dd_articles, dd_threshold, dd_pos, dd_deduped, seen_urls,
                   normalized_to_article, url_duplicates, title_duplicates,
                   dropped_items, dd_stats, notDedupeVars>>

\* The return with the statistics (115-126).
DedupeReturn ==
    /\ dpc = "loop" /\ dd_pos > Len(dd_articles)
    /\ dd_stats' = [total_input |-> Len(dd_articles), kept |-> Len(dd_deduped),
                    url_duplicates |-> url_duplicates,
                    title_duplicates |-> title_duplicates]
    /\ dpc' = "done"
    /\ UNCHANGED <<dd_articles, dd_threshold, dd_pos, dd_deduped, seen_urls,
                   normalized_to_article, url_duplicates, title_duplicates,
                   dropped_items, notDedupeVars>>

NextDedupe ==
    \/ DedupeUrlDuplicate
    \/ DedupeTitleSimilar
    \/ DedupeKeep
    \/ DedupeRaises
    \/ DedupeReturn

SpecDedupe == InitDedupe /\ [][NextDedupe]_vars

\* The ids of the articles dedupe_articles returned.
KeptIds == {dd_deduped[k].id : k \in DOMAIN dd_deduped}

\* Input positions i < j of two articles with distinct normalized URLs, the
\* title of the later one similar to the earlier one's.
SimilarPairs ==
    {p \in (DOMAIN dd_articles) \X (DOMAIN dd_articles) :
        /\ p[1] < p[2]
        /\ NormalizedUrls[dd_articles[p[1]].url] # NormalizedUrls[dd_articles[p[2]].url]
        /\ Similar(dd_articles[p[2]], dd_articles[p[1]], dd_threshold)}

UrlVariants(base) ==
    {base,
     [base EXCEPT ![1] = "HTTPS"],
     [base EXCEPT ![5] = "E.com"],
     base \o <<"/">>,
     base \o <<"?", "utm_s", "=", "1">>,
     base \o <<"?", "ref", "=", "1">>,
     base \o <<"#", "f">>}

VariantsCountAsSame ==
    \A base \in {u \in DedupeUrls : u[1] = "https"} :
        \A variant \in UrlVariants(base) : NormalizeUrl(variant) = NormalizeUrl(base)

DroppedIds == {dropped_items[n].article_id : n \in DOMAIN dropped_items}

ItemsWithReason(reason) ==
    {n \in DOMAIN dropped_items : dropped_items[n].reason = reason}

MaxTailLen == 3

UrlHeads ==
    {<<>>,
     <<"https", ":", "/", "/", "e.com">>,
     <<"HTTPS", ":", "/", "/", "E.com">>,
     <<"x", ":">>}

UrlTailTokens == {"/", "a", ";", "?", "utm_s", "=", "1", "&", "#", " ", "["}

UrlTexts ==
    {head \o tail : head \in UrlHeads, tail \in SeqsUpTo(UrlTailTokens, MaxTailLen)}

InitUrl ==
    /\ IdleNotUrl
    /\ upc = "start"
    /\ url_text \in UrlTexts
    /\ url_once = <<>>
    /\ url_twice = <<>>

\* normalize_url(u) raises: urlparse (24) does.
NormalizeRaises ==
    /\ upc \in {"start", "once"}
    /\ UrlParse(Strip(IF upc = "start" THEN url_text ELSE url_once)).raises
    /\ upc' = "raised"
    /\ UNCHANGED <<url_text, url_once, url_twice, notUrlVars>>

\* normalize_url(u).
NormalizeOnce ==
    /\ upc = "start"
    /\ ~UrlParse(Strip(url_text)).raises
    /\ url_once' = NormalizeUrl(url_text)
    /\ upc' = "once"
    /\ UNCHANGED <<url_text, url_twice, notUrlVars>>

\* normalize_url(normalize_url(u)).
NormalizeTwice ==
    /\ upc = "once"
    /\ ~UrlParse(Strip(url_once)).raises
    /\ url_twice' = NormalizeUrl(url_once)
    /\ upc' = "twice"
    /\ UNCHANGED <<url_text, url_once, notUrlVars>>

NextUrl == NormalizeRaises \/ NormalizeOnce \/ NormalizeTwice

SpecUrl == InitUrl /\ [][NextUrl]_vars

\* The scheme and the host of the text are in lower case and no parameter of
\* its query has a name that starts with a tracking prefix.
IsNormalForm(url) ==
    LET parsed == UrlParse(url)
        pairs  == ParseQsl(parsed.query)
    IN  /\ parsed.scheme = LowerText(parsed.scheme)
        /\ parsed.netloc = LowerText(parsed.netloc)
        /\ \A i \in DOMAIN pairs : ~HasTrackingPrefix(pairs[i][1])

\* C17: the result of normalize_url has a lower-case scheme and host and no
\* tracking parameter, and normalizing it again gives the same text.
C17_NormalizeUrlIdempotent ==
    /\ upc \in {"once", "twice"} => IsNormalForm(url_once)
    /\ upc = "twice" => url_twice = url_once

(***************************************************************************)
(* src/main.py: _percentile on its own                                     *)
(***************************************************************************)
MaxPercentileValues == 5

PercentileScores == {50, 60, 70, 80, 90}
Percentiles      == {-10, 0, 25, 50, 70, 99, 100, 120}

InitPct ==
    /\ IdleNotPct
    /\ ppc = "start"
    /\ pct_values \in SeqsUpTo(PercentileScores, MaxPercentileValues)
    /\ pct_percentile \in Percentiles
    /\ pct_result = 0

\* _percentile(values, percentile); the result is kept times 100.
PercentileStep ==
    /\ ppc = "start"
    /\ pct_result' = Percentile(pct_values, pct_percentile)
    /\ ppc' = "done"
    /\ UNCHANGED <<pct_values, pct_percentile, notPctVars>>

NextPct == PercentileStep

SpecPct == InitPct /\ [][NextPct]_vars

\* The k-th smallest of the values, counted from 1.
OrderStatistic(values, k) ==
    CHOOSE v \in Range(values) :
        /\ Cardinality({i \in DOMAIN values : values[i] < v}) < k
        /\ Cardinality({i \in DOMAIN values : values[i] <= v}) >= k

\* C18: _percentile gives 0 for an empty list; for a list of n values it gives
\* the least for a percentile <= 0, the greatest for a percentile >= 100, and
\* else, with (n-1)*percentile/100 = lower + weight, the order statistic at
\* lower when weight is 0 and the interpolation
\* s[lower]*(1-weight) + s[lower+1]*weight otherwise (results times 100).
C18_PercentileInterpolates ==
    ppc = "done" =>
        LET n      == Len(pct_values)
            lower  == ((n - 1) * pct_percentile) \div 100
            weight == ((n - 1) * pct_percentile) % 100
        IN  IF n = 0 THEN pct_result = 0
            ELSE IF pct_percentile <= 0
                 THEN pct_result = 100 * OrderStatistic(pct_values, 1)
            ELSE IF pct_percentile >= 100
                 THEN pct_result = 100 * OrderStatistic(pct_values, n)
            ELSE IF weight = 0
                 THEN pct_result = 100 * OrderStatistic(pct_values, lower + 1)
            ELSE pct_result =
                    OrderStatistic(pct_values, lower + 1) * (100 - weight)
                    + OrderStatistic(pct_values, lower + 2) * weight

\* The values 50, 60, 70, 80, 90 in another order, at the 70th percentile,
\* gave 78.
C18_Witness ==
    /\ ppc = "done"
    /\ pct_values = <<90, 50, 70, 60, 80>>
    /\ pct_percentile = 70
    /\ pct_result = 7800

(***************************************************************************)
(* ArticleEvaluator.evaluate_articles: the assessments returned            *)
(***************************************************************************)
\* The assessment has a worth of the vocabulary, a primary type the evaluator
\* of this call allows, and a score and a confidence within their ranges.
ValidAssessment(a) ==
    /\ a.worth \in VALID_WORTH
    /\ a.primary_type \in article_types
    /\ a.quality_score \in 0..100
    /\ a.confidence \in 0..100

\* C19: every assessment evaluate_articles returns, parsed in this call or
\* read from the cache, has a worth of the vocabulary, a primary type among
\* the evaluator's allowed types, a score in 0..100 and a confidence in 0..1.
C19_ReturnedAssessmentsAreValid ==
    epc = "returned" =>
        \A id \in DOMAIN assessments : ValidAssessment(assessments[id])

(***************************************************************************)
(* SpecRetry: the two retry loops of a run, one after the other.           *)
(*   article_evaluator.py 109-133: the attempts of evaluate_articles on    *)
(*   one article whose assessment is not in the cache;                     *)
(*   flomo_client.py 52-74: the POSTs of FlomoClient.send.                 *)
(* Each loop writes what it does, in order, to a log of calls and sleeps.  *)
(* Sleeps are in hundredths of a second.                                   *)
(***************************************************************************)
MaxRetries == 2
FlomoDefaultMaxRetries == 3     \* max_retries: int = 3

\* int(os.getenv("AI_EVAL_MAX_RETRIES", "2"))
EvalMaxRetriesEnv == (-1..MaxRetries) \cup {EvalMaxRetries}

\* FlomoClient(max_retries=...)
FlomoMaxRetriesArgs == (0..MaxRetries) \cup {FlomoDefaultMaxRetries}

CallEvent(raised) == [event |-> "call", raised |-> raised, seconds |-> 0]
SleepEvent(seconds) == [event |-> "sleep", raised |-> "", seconds |-> seconds]

\* article_evaluator.py 128: if attempt < self.max_retries
EvalSleeps(attempt_no, max_retries) == attempt_no < max_retries

\* article_evaluator.py 129: time.sleep(0.35 * (attempt + 1))
EvalSleepSeconds(attempt_no) == 35 * (attempt_no + 1)

\* flomo_client.py 70: if attempt < self.max_retries
FlomoSleepsAlways(attempt_no, max_retries) == TRUE

FlomoSleeps(attempt_no, max_retries) == attempt_no < max_retries

\* flomo_client.py 62: the status codes that send treats as temporary errors
TemporaryStatusCodes == {408, 429, 500, 502, 503, 504}

\* What requests.post gives: a response with a status code, or a
\* requests.RequestException (timeout, connection error).
PostOutcomes ==
    [kind : {"response"},
     status_code : {200, 204, 400, 404, 501} \cup TemporaryStatusCodes]
        \cup {[kind |-> "exception", status_code |-> 0]}

\* flomo_client.py 55-64: the exception a POST ends in, or "none";
\* raise_for_status raises requests.HTTPError for 400..599.
PostRaises(outcome) ==
    IF outcome.kind = "exception" THEN "RequestException"
    ELSE IF outcome.status_code \in TemporaryStatusCodes THEN "FlomoSyncError"
    ELSE IF outcome.status_code >= 400 THEN "HTTPError"
    ELSE "none"

InitRetry ==
    /\ tpc = "evaluate"
    /\ eval_max_retries \in {Max(0, v) : v \in EvalMaxRetriesEnv}
    /\ eval_attempt = 0
    /\ eval_last_error = ""
    /\ eval_log = <<>>
    /\ flomo_max_retries \in FlomoMaxRetriesArgs
    /\ flomo_attempt = 1
    /\ backoff_seconds = 100
    /\ flomo_last_error = ""
    /\ flomo_raised = ""
    /\ flomo_log = <<>>
    /\ IdleNotRetry

\* 110-125: an attempt whose response parses; last_error is cleared and the
\* loop is left by break.
RetryEvalStores ==
    /\ tpc = "evaluate"
    /\ eval_attempt <= eval_max_retries
    /\ \E resp \in LLMResponses : EvaluateArticleRaises(resp) = "none"
    /\ eval_log' = Append(eval_log, CallEvent("none"))
    /\ eval_last_error' = ""
    /\ tpc' = "send"
    /\ UNCHANGED <<eval_max_retries, eval_attempt, flomo_max_retries,
                   flomo_attempt, backoff_seconds, flomo_last_error,
                   flomo_raised, flomo_log, notRetryVars>>

\* 126-129: an attempt that raises DeepSeekError; the loop sleeps when
\* attempts are left and goes on to the next value of range().
RetryEvalFails ==
    /\ tpc = "evaluate"
    /\ eval_attempt <= eval_max_retries
    /\ \E resp \in LLMResponses : EvaluateArticleRaises(resp) = "DeepSeekError"
    /\ eval_last_error' = "DeepSeekError"
    /\ eval_log' = eval_log \o <<CallEvent("DeepSeekError")>> \o
                     (IF EvalSleeps(eval_attempt, eval_max_retries)
                      THEN <<SleepEvent(EvalSleepSeconds(eval_attempt))>>
                      ELSE <<>>)
    /\ eval_attempt' = eval_attempt + 1
    /\ UNCHANGED <<tpc, eval_max_retries, flomo_max_retries, flomo_attempt,
                   backoff_seconds, flomo_last_error, flomo_raised, flomo_log,
                   notRetryVars>>

\* 111-126: an exception that is no DeepSeekError leaves evaluate_articles.
RetryEvalEscapes ==
    /\ tpc = "evaluate"
    /\ eval_attempt <= eval_max_retries
    /\ \E resp \in LLMResponses :
         /\ EvaluateArticleRaises(resp) \notin {"none", "DeepSeekError"}
         /\ eval_log' = Append(eval_log, CallEvent(EvaluateArticleRaises(resp)))
    /\ tpc' = "raised"
    /\ UNCHANGED <<eval_max_retries, eval_attempt, eval_last_error,
                   flomo_max_retries, flomo_attempt, backoff_seconds,
                   flomo_last_error, flomo_raised, flomo_log, notRetryVars>>

\* 110, 130-133: range() is used up; the article is skipped.
RetryEvalSkips ==
    /\ tpc = "evaluate"
    /\ eval_attempt > eval_max_retries
    /\ tpc' = "send"
    /\ UNCHANGED <<eval_max_retries, eval_attempt, eval_last_error, eval_log,
                   flomo_max_retries, flomo_attempt, backoff_seconds,
                   flomo_last_error, flomo_raised, flomo_log, notRetryVars>>

\* 54-66: a POST that is answered with a status below 400; send returns.
SendPostSucceeds ==
    /\ tpc = "send"
    /\ flomo_attempt <= flomo_max_retries
    /\ \E outcome \in PostOutcomes : PostRaises(outcome) = "none"
    /\ flomo_log' = Append(flomo_log, CallEvent("none"))
    /\ tpc' = "done"
    /\ UNCHANGED <<eval_max_retries, eval_attempt, eval_last_error, eval_log,
                   flomo_max_retries, flomo_attempt, backoff_seconds,
                   flomo_last_error, flomo_raised, notRetryVars>>

\* 54-72: a POST that ends in a RequestException or a FlomoSyncError; the
\* loop sleeps and doubles the backoff when attempts are left.
SendPostFails ==
    /\ tpc = "send"
    /\ flomo_attempt <= flomo_max_retries
    /\ \E outcome \in PostOutcomes :
         /\ PostRaises(outcome) # "none"
         /\ flomo_last_error' = PostRaises(outcome)
         /\ flomo_log' = flomo_log \o <<CallEvent(PostRaises(outcome))>> \o
                           (IF FlomoSleeps(flomo_attempt, flomo_max_retries)
                            THEN <<SleepEvent(backoff_seconds)>>
                            ELSE <<>>)
    /\ backoff_seconds' = IF FlomoSleeps(flomo_attempt, flomo_max_retries)
                          THEN backoff_seconds * 2
                          ELSE backoff_seconds
    /\ flomo_attempt' = flomo_attempt + 1
    /\ UNCHANGED <<tpc, eval_max_retries, eval_attempt, eval_last_error,
                   eval_log, flomo_max_retries, flomo_raised, notRetryVars>>

\* 54, 74: range() is used up; send raises FlomoSyncError.
SendRaises ==
    /\ tpc = "send"
    /\ flomo_attempt > flomo_max_retries
    /\ flomo_raised' = "FlomoSyncError"
    /\ tpc' = "done"
    /\ UNCHANGED <<eval_max_retries, eval_attempt, eval_last_error, eval_log,
                   flomo_max_retries, flomo_attempt, backoff_seconds,
                   flomo_last_error, flomo_log, notRetryVars>>

NextRetry ==
    \/ RetryEvalStores
    \/ RetryEvalFails
    \/ RetryEvalEscapes
    \/ RetryEvalSkips
    \/ SendPostSucceeds
    \/ SendPostFails
    \/ SendRaises

SpecRetry == InitRetry /\ [][NextRetry]_vars

\* The number of calls in a log, and the lengths of its sleeps in order.
CallCount(log) == Cardinality({i \in DOMAIN log : log[i].event = "call"})

IsSleep(entry) == entry.event = "sleep"

SleepSeconds(log) ==
    LET sleeps == SelectSeq(log, IsSleep)
    IN  [i \in DOMAIN sleeps |-> sleeps[i].seconds]

Succeeded(log) ==
    \E i \in DOMAIN log : log[i].event = "call" /\ log[i].raised = "none"

\* A call that succeeded is the last entry of its log.
StopsAtFirstSuccess(log) ==
    \A i \in DOMAIN log :
        (log[i].event = "call" /\ log[i].raised = "none") => i = Len(log)

\* Every sleep stands between two calls; a sleep at the end of the log is
\* allowed only while the loop is about to make its next call.
SleepsOnlyBetweenAttempts(log, next_call_follows) ==
    \A i \in DOMAIN log :
        log[i].event = "sleep" =>
            /\ i > 1
            /\ log[i - 1].event = "call"
            /\ IF i < Len(log) THEN log[i + 1].event = "call"
                               ELSE next_call_follows

Inversions(s) ==
    Cardinality({pair \in (DOMAIN s) \X (DOMAIN s) :
                    pair[1] < pair[2] /\ s[pair[1]].score < s[pair[2]].score})

\* The returned list holds every candidate of the input once.
IsPermutation(before, after) ==
    /\ Len(after) = Len(before)
    /\ \A i \in DOMAIN before :
          Cardinality({j \in DOMAIN after : after[j] = before[i]})
              = Cardinality({j \in DOMAIN before : before[j] = before[i]})

\* C30: the guard loop of _reorder_candidates_by_type_preference ends for
\* every candidate list and every guard: a pass of the loop that asks for
\* another pass has lowered the number of inversions by score, which cannot
\* go below 0.  The returned list is a permutation of the input, and with
\* empty multipliers or blend <= 0 the input comes back unchanged with a
\* reorder count of 0.
C30_GuardLoopTerminatesWithPermutation ==
    [][/\ (rpc = "loop" /\ changed /\ changed') =>
              Inversions(ordered') < Inversions(ordered)
       /\ (rpc = "loop" /\ changed) => rpc' = "loop"
       /\ rpc' = "done" =>
              /\ IsPermutation(candidates', ordered')
              /\ (DOMAIN type_multipliers' = {} \/ blend' <= 0) =>
                     (ordered' = candidates' /\ reordered' = 0)]_vars

\* A call with a positive guard whose loop swapped a pair back and returned.
C30_Witness ==
    /\ rpc = "done"
    /\ quality_gap_guard > 0
    /\ Len(candidates) = MaxCands
    /\ ordered # SortedByPreference(candidates, type_multipliers, blend)
    /\ ordered # candidates

\* C27: the final highlight list holds each article at most once, also when
\* the summarizer's highlight list names an article_id in several entries.
C27_EachArticleAtMostOnce ==
    pc \in {"publish", "published", "exit"} =>
        \A i, j \in DOMAIN tagged_highlights :
            i # j => tagged_highlights[i].id # tagged_highlights[j].id

\* C28: a run that ends with a failure code from 2 to 6 has written no
\* digest report and sent nothing to flomo; a report is written and the
\* webhook is called only in runs that selected at least one highlight.
C28_FailedRunsPublishNothing ==
    /\ (pc = "exit" /\ exit_code \in 2..6) => (~report_written /\ ~flomo_sent)
    /\ (report_written \/ flomo_sent) => tagged_highlights # <<>>

\* The effective threshold of the run (main.py 348-350), times 100.
RunThreshold == EffectiveThreshold(ScoredAssessments(deduped, run_assessments))

MustReadCount(highlights) ==
    Cardinality({i \in DOMAIN highlights : highlights[i].worth = WORTH_MUST_READ})

\* C29: in the final highlight list every must-read article comes before
\* every worth-reading article; a worth-reading article is selected only
\* when the must-read candidates left the list below the selection cap; and
\* a must-read article below the effective threshold is dropped, not listed
\* as worth reading.
C29_MustReadFirstFallbackOnlyBelowCap ==
    pc \in {"publish", "published", "exit"} =>
        /\ \A i, j \in DOMAIN tagged_highlights :
              (tagged_highlights[i].worth = WORTH_WORTH_READING
                 /\ tagged_highlights[j].worth = WORTH_MUST_READ) => j < i
        /\ (\E i \in DOMAIN tagged_highlights :
               tagged_highlights[i].worth = WORTH_WORTH_READING)
              => MustReadCount(tagged_highlights) < selection_cap
        /\ \A i \in DOMAIN tagged_highlights :
              LET h == tagged_highlights[i]
                  a == run_assessments[h.id]
              IN  /\ h.worth = a.worth
                  /\ h.worth \in {WORTH_MUST_READ, WORTH_WORTH_READING}
                  /\ a.worth = WORTH_MUST_READ =>
                         100 * a.quality_score >= RunThreshold

\* A must-read article is followed by a worth-reading one, and a must-read
\* article that the summarizer highlighted is missing because its score is
\* below the threshold.
C29_Witness ==
    /\ pc = "publish"
    /\ Len(tagged_highlights) = 2
    /\ tagged_highlights[1].worth = WORTH_MUST_READ
    /\ tagged_highlights[2].worth = WORTH_WORTH_READING
    /\ \E i \in DOMAIN ai_highlights :
          LET id == ai_highlights[i].article_id
          IN  /\ id \in DOMAIN run_assessments
              /\ run_assessments[id].worth = WORTH_MUST_READ
              /\ run_assessments[id].confidence >= MinHighlightConfidence
              /\ 100 * run_assessments[id].quality_score < RunThreshold
              /\ \A j \in DOMAIN tagged_highlights : tagged_highlights[j].id # id

\* C25: prune(max_rows) leaves min(previous row count, max_rows) rows and
\* removes the rows with the oldest updated_at; and whenever a call of
\* evaluate_articles has ended, the cache holds no more than max_rows rows.
C25_CacheWithinMaxRowsAfterEveryCall ==
    [][/\ (epc = "loop" /\ epc' = "returned") =>
              /\ DOMAIN cache' \subseteq DOMAIN cache
              /\ Cardinality(DOMAIN cache')
                    = Min(Cardinality(DOMAIN cache), PruneMaxRows)
              /\ \A k \in DOMAIN cache' : cache'[k] = cache[k]
              /\ \A r \in DOMAIN cache \ DOMAIN cache', k \in DOMAIN cache' :
                    cache[r].updated_at <= cache[k].updated_at
       /\ epc' \in {"returned", "raised"} =>
              Cardinality(DOMAIN cache') <= PruneMaxRows]_vars

(***************************************************************************)
(* src/fetch/rss_fetcher.py: fetch_articles                                *)
(***************************************************************************)
MaxSources == 2

MaxPerSource == 25

\* Links as HREF_RE and URL_RE find them in an entry's text blocks.
ExternalLink  == <<"https", ":", "/", "/", "e.com", "/", "a">>
ShortLink     == <<"https", ":", "/", "/", "t.co", "/", "a">>
InternalLink  == <<"https", ":", "/", "/", "x.com", "/", "a">>
SubdomainLink == <<"https", ":", "/", "/", "pbs", ".", "twimg.com", "/", "a">>
PortLink      == <<"HTTPS", ":", "/", "/", "x.com", ":", "0", "/", "a">>
RelativeLink  == <<"/", "a">>
BracketLink   == <<"http", ":", "/", "/", "[", "evil">>

X_INTERNAL_HOSTS ==
    {<<"twitter.com">>, <<"www", ".", "twitter.com">>, <<"x.com">>,
     <<"www", ".", "x.com">>, <<"mobile", ".", "twitter.com">>,
     <<"mobile", ".", "x.com">>}

EndsWith(s, suffix) ==
    /\ Len(s) >= Len(suffix)
    /\ SubSeq(s, Len(s) - Len(suffix) + 1, Len(s)) = suffix

\* _is_external_link on the host of a parsed link.
HostIsExternal(host) ==
    IF host = <<>> THEN FALSE
    ELSE IF host = <<"t.co">> THEN TRUE
    ELSE IF host \in X_INTERNAL_HOSTS THEN FALSE
    ELSE IF \/ EndsWith(host, <<".", "twitter.com">>)
            \/ EndsWith(host, <<".", "x.com">>)
            \/ EndsWith(host, <<".", "twimg.com">>)
         THEN FALSE
    ELSE TRUE

\* _is_external_link: urlparse is called outside any try, so its ValueError
\* leaves the function.
IsExternalLinkOf(parsed) ==
    [raises |-> parsed.raises,
     value  |-> ~parsed.raises
                /\ HostIsExternal(Partition(LowerText(parsed.netloc), ":").before)]

IsExternalLink(value) == IsExternalLinkOf(UrlParse(Strip(value)))

\* _entry_has_external_link: any() asks the links in order and stops at the
\* first external one; a link that raises before that ends the call.
RECURSIVE AnyExternalFrom(_, _)
AnyExternalAt(links, i, r) ==
    IF r.raises THEN [raises |-> TRUE, value |-> FALSE]
    ELSE IF r.value THEN [raises |-> FALSE, value |-> TRUE]
    ELSE AnyExternalFrom(links, i + 1)

AnyExternalFrom(links, i) ==
    IF i > Len(links) THEN [raises |-> FALSE, value |-> FALSE]
    ELSE AnyExternalAt(links, i, IsExternalLink(links[i]))

EntryHasExternalLink(entry) == AnyExternalFrom(entry.links, 1)

\* Feed entries: whether the cleaned title and the stripped link are
\* non-empty, and the candidate links of the text blocks.
FeedEntry(uid, title, link, links) ==
    [uid |-> uid, title |-> title, link |-> link, links |-> links]

PlainEntry     == FeedEntry("plain", TRUE, TRUE, <<>>)
UntitledEntry  == FeedEntry("untitled", FALSE, TRUE, <<ExternalLink>>)
LinkingEntry   == FeedEntry("linking", TRUE, TRUE, <<InternalLink, ExternalLink>>)
ShortEntry     == FeedEntry("short", TRUE, TRUE, <<RelativeLink, ShortLink>>)
InternalEntry  == FeedEntry("internal", TRUE, TRUE,
                            <<InternalLink, SubdomainLink, PortLink>>)
BracketEntry   == FeedEntry("bracket", TRUE, TRUE, <<InternalLink, BracketLink>>)
LateBracketEntry == FeedEntry("late", TRUE, TRUE, <<ExternalLink, BracketLink>>)

Feeds ==
    {<<PlainEntry, LinkingEntry>>,
     <<InternalEntry, ShortEntry>>,
     <<UntitledEntry, LateBracketEntry>>,
     <<LinkingEntry, BracketEntry>>}

SourceIds == 1..MaxSources

FetchSource(id, ok, only_external_links, feed) ==
    [id |-> id, ok |-> ok, only_external_links |-> only_external_links,
     feed |-> feed]

SourceLists ==
    {s \in [SourceIds -> [ok : BOOLEAN, only_external_links : BOOLEAN,
                          feed : Feeds]] : TRUE}

LimitValues == {-1, 1, 2}

PerSourceLimits == UNION {[d -> LimitValues] : d \in SUBSET SourceIds}

TotalBudgets == {0, 1}

FetchedArticle(source_id, entry) == [source_id |-> source_id, uid |-> entry.uid]

\* per_source_limits.get(source.id, max_per_source)
PerSourceCap(limits, id) ==
    IF id \in DOMAIN limits THEN limits[id] ELSE MaxPerSource

\* parsed.entries[: max(0, per_source_cap)]
CappedEntries(feed, cap) == SubSeq(feed, 1, Min(Len(feed), Max(0, cap)))

BudgetSpent(budget, arts) == budget > 0 /\ Len(arts) >= budget

\* The loop over the entries of one source: the budget break, the external
\* link filter, the title and link filter, the append.
RECURSIVE TakeEntries(_, _, _, _, _)
TakeEntryAt(source, entries, i, budget, arts, has_link) ==
    IF source.only_external_links /\ has_link.raises
    THEN [raises |-> TRUE, articles |-> arts]
    ELSE IF source.only_external_links /\ ~has_link.value
    THEN TakeEntries(source, entries, i + 1, budget, arts)
    ELSE IF ~entries[i].title \/ ~entries[i].link
    THEN TakeEntries(source, entries, i + 1, budget, arts)
    ELSE TakeEntries(source, entries, i + 1, budget,
                     Append(arts, FetchedArticle(source.id, entries[i])))

TakeEntries(source, entries, i, budget, arts) ==
    IF i > Len(entries) \/ BudgetSpent(budget, arts)
    THEN [raises |-> FALSE, articles |-> arts]
    ELSE TakeEntryAt(source, entries, i, budget, arts,
                     EntryHasExternalLink(entries[i]))

SourceAt(i) == FetchSource(i, fetch_sources[i].ok,
                           fetch_sources[i].only_external_links,
                           fetch_sources[i].feed)

TakenAt(i) ==
    TakeEntries(SourceAt(i),
                CappedEntries(fetch_sources[i].feed,
                              PerSourceCap(per_source_limits, i)),
                1, total_budget, fetched)

InitFetch ==
    /\ fpc = "loop"
    /\ fetch_sources \in SourceLists
    /\ per_source_limits \in PerSourceLimits
    /\ total_budget \in TotalBudgets
    /\ fetch_pos = 1
    /\ fetched = <<>>
    /\ IdleNotFetch

FetchInLoop ==
    /\ fpc = "loop"
    /\ fetch_pos <= MaxSources
    /\ ~BudgetSpent(total_budget, fetched)

\* requests.get or raise_for_status raises RequestException: warn, continue.
FetchFails ==
    /\ FetchInLoop
    /\ ~fetch_sources[fetch_pos].ok
    /\ fetch_pos' = fetch_pos + 1
    /\ UNCHANGED <<fpc, fetch_sources, per_source_limits, total_budget, fetched,
                   notFetchVars>>

\* The feed is parsed and its entries are appended.
FetchAppends ==
    /\ FetchInLoop
    /\ fetch_sources[fetch_pos].ok
    /\ ~TakenAt(fetch_pos).raises
    /\ fetched' = TakenAt(fetch_pos).articles
    /\ fetch_pos' = fetch_pos + 1
    /\ UNCHANGED <<fpc, fetch_sources, per_source_limits, total_budget,
                   notFetchVars>>

\* A candidate link of an entry makes urlparse raise ValueError.
FetchRaises ==
    /\ FetchInLoop
    /\ fetch_sources[fetch_pos].ok
    /\ TakenAt(fetch_pos).raises
    /\ fpc' = "raised"
    /\ UNCHANGED <<fetch_sources, per_source_limits, total_budget, fetch_pos,
                   fetched, notFetchVars>>

\* The loop ends at the last source or at the budget break.
FetchReturns ==
    /\ fpc = "loop"
    /\ fetch_pos > MaxSources \/ BudgetSpent(total_budget, fetched)
    /\ fpc' = "returned"
    /\ UNCHANGED <<fetch_sources, per_source_limits, total_budget, fetch_pos,
                   fetched, notFetchVars>>

NextFetch == FetchFails \/ FetchAppends \/ FetchRaises \/ FetchReturns

SpecFetch == InitFetch /\ [][NextFetch]_vars

\* The articles of one source whose fetch succeeded: the entries within the
\* source's limit that have a title and a link and, for a source that keeps
\* only external links, a link out of X.
KeptEntry(source, entry) ==
    /\ entry.title /\ entry.link
    /\ source.only_external_links =>
           \E k \in DOMAIN entry.links :
               HostIsExternal(Partition(LowerText(UrlParse(Strip(entry.links[k])).netloc),
                                        ":").before)

ArticlesOfSource(i) ==
    LET entries == CappedEntries(fetch_sources[i].feed,
                                 PerSourceCap(per_source_limits, i))
        kept == SelectSeq(entries, LAMBDA e : KeptEntry(fetch_sources[i], e))
    IN  [k \in DOMAIN kept |-> FetchedArticle(i, kept[k])]

RECURSIVE ArticlesOfSucceeded(_)
ArticlesOfSucceeded(i) ==
    IF i > MaxSources THEN <<>>
    ELSE (IF fetch_sources[i].ok THEN ArticlesOfSource(i) ELSE <<>>)
         \o ArticlesOfSucceeded(i + 1)

\* C21: whichever sources fail to fetch, fetch_articles raises nothing and
\* returns exactly the articles of the sources that succeeded, in source
\* order, with at most per_source_limits[source] entries of each feed.
C21_FailedSourcesAreSkippedOnly ==
    /\ fpc # "raised"
    /\ fpc = "returned" => fetched = ArticlesOfSucceeded(1)

(***************************************************************************)
(* src/process/source_quality.py: build_budgeted_source_limits             *)
(* The prioritized sources are numbered 1..count in priority order and     *)
(* source_limits, allocated and rooms are indexed by that number.          *)
(***************************************************************************)
MaxBudgetSources == 3

MaxFetchBudget == 8

SourceLimitChoices == {0, 1, 2, 3, 5}

MinPerSourceChoices == {1, 2}

SourceLimitLists ==
    UNION {[1..n -> SourceLimitChoices] : n \in 0..MaxBudgetSources}

RECURSIVE SumTo(_, _)
SumTo(s, n) == IF n = 0 THEN 0 ELSE s[n] + SumTo(s, n - 1)

SumValues(s) == SumTo(s, Len(s))

\* base = min_per_source if total_budget >= count * min_per_source
\*        else max(1, total_budget // count)
BaseAllocation(count, total, minimum) ==
    IF total >= count * minimum THEN minimum ELSE Max(1, total \div count)

\* allocated[source.id] = min(base, max(0, cap))
BaseAllocated(limits, base) ==
    [i \in DOMAIN limits |-> Min(base, Max(0, limits[i]))]

\* rooms[source.id] = max(0, limit - allocated[source.id])
RoomsOf(limits, alloc) ==
    [i \in DOMAIN limits |-> Max(0, limits[i] - alloc[i])]

\* add = min(room, int((proportional_budget * room) / max(total_room, 1)))
ProportionalAdd(room, proportional, room_sum) ==
    Min(room, (proportional * room) \div Max(room_sum, 1))

LeftoverAddNothing(room, left) == 0

\* add = min(room, remaining)
LeftoverAdd(room, left) == Min(room, left)

InitBudget ==
    /\ bpc = "start"
    /\ source_limits \in SourceLimitLists
    /\ fetch_budget \in 0..MaxFetchBudget
    /\ min_per_source \in MinPerSourceChoices
    /\ allocated = <<>> /\ rooms = <<>>
    /\ remaining = 0 /\ proportional_budget = 0 /\ total_room = 0
    /\ budget_pos = 0 /\ budgeted = <<>>
    /\ IdleNotBudget

BudgetInputs == <<source_limits, fetch_budget, min_per_source>>

\* total_budget <= 0 or no sources: the limits are returned as they are.
BudgetDisabled ==
    /\ bpc = "start"
    /\ fetch_budget <= 0 \/ source_limits = <<>>
    /\ budgeted' = source_limits
    /\ bpc' = "returned"
    /\ UNCHANGED <<BudgetInputs, allocated, rooms, remaining,
                   proportional_budget, total_room, budget_pos, notBudgetVars>>

\* total_budget < count: one article from each of the first sources.
BudgetTiny ==
    /\ bpc = "start"
    /\ fetch_budget > 0 /\ source_limits # <<>>
    /\ fetch_budget < Len(source_limits)
    /\ budgeted' = [i \in DOMAIN source_limits |->
                        IF i - 1 < fetch_budget THEN 1 ELSE 0]
    /\ bpc' = "returned"
    /\ UNCHANGED <<BudgetInputs, allocated, rooms, remaining,
                   proportional_budget, total_room, budget_pos, notBudgetVars>>

BudgetBaseOf(alloc) ==
    /\ allocated' = alloc
    /\ remaining' = Max(0, fetch_budget - SumValues(alloc))
    /\ rooms' = RoomsOf(source_limits, alloc)
    /\ total_room' = SumValues(RoomsOf(source_limits, alloc))
    /\ proportional_budget' = Max(0, fetch_budget - SumValues(alloc))
    /\ IF Max(0, fetch_budget - SumValues(alloc)) = 0
          \/ SumValues(RoomsOf(source_limits, alloc)) <= 0
       THEN bpc' = "returned" /\ budgeted' = alloc /\ budget_pos' = budget_pos
       ELSE bpc' = "first" /\ budgeted' = budgeted /\ budget_pos' = 1

\* The base allocation, and the early returns when nothing remains or no
\* source has room.
BudgetBase ==
    /\ bpc = "start"
    /\ fetch_budget > 0 /\ source_limits # <<>>
    /\ fetch_budget >= Len(source_limits)
    /\ BudgetBaseOf(BaseAllocated(source_limits,
                                  BaseAllocation(Len(source_limits), fetch_budget,
                                                 min_per_source)))
    /\ UNCHANGED <<BudgetInputs, notBudgetVars>>

BudgetAddAt(i, add) ==
    /\ allocated' = [allocated EXCEPT ![i] = @ + add]
    /\ rooms' = [rooms EXCEPT ![i] = @ - add]
    /\ remaining' = remaining - add

\* One source of the first pass: the proportional share.
BudgetFirstPass ==
    /\ bpc = "first"
    /\ budget_pos <= Len(source_limits)
    /\ IF rooms[budget_pos] <= 0 \/ proportional_budget <= 0
       THEN UNCHANGED <<allocated, rooms, remaining>>
       ELSE BudgetAddAt(budget_pos,
                        Max(0, ProportionalAdd(rooms[budget_pos],
                                               proportional_budget, total_room)))
    /\ budget_pos' = budget_pos + 1
    /\ UNCHANGED <<bpc, BudgetInputs, proportional_budget, total_room, budgeted,
                   notBudgetVars>>

BudgetFirstPassEnds ==
    /\ bpc = "first"
    /\ budget_pos > Len(source_limits)
    /\ bpc' = "second"
    /\ budget_pos' = 1
    /\ UNCHANGED <<BudgetInputs, allocated, rooms, remaining,
                   proportional_budget, total_room, budgeted, notBudgetVars>>

\* One source of the second pass: the leftovers by priority.
BudgetSecondPass ==
    /\ bpc = "second"
    /\ budget_pos <= Len(source_limits)
    /\ remaining > 0
    /\ IF rooms[budget_pos] <= 0
       THEN UNCHANGED <<allocated, rooms, remaining>>
       ELSE /\ allocated' = [allocated EXCEPT ![budget_pos] =
                                 @ + LeftoverAdd(rooms[budget_pos], remaining)]
            /\ remaining' = remaining - LeftoverAdd(rooms[budget_pos], remaining)
            /\ rooms' = rooms
    /\ budget_pos' = budget_pos + 1
    /\ UNCHANGED <<bpc, BudgetInputs, proportional_budget, total_room, budgeted,
                   notBudgetVars>>

BudgetReturns ==
    /\ bpc = "second"
    /\ budget_pos > Len(source_limits) \/ remaining <= 0
    /\ budgeted' = allocated
    /\ bpc' = "returned"
    /\ UNCHANGED <<BudgetInputs, allocated, rooms, remaining,
                   proportional_budget, total_room, budget_pos, notBudgetVars>>

NextBudget ==
    \/ BudgetDisabled \/ BudgetTiny \/ BudgetBase \/ BudgetFirstPass
    \/ BudgetFirstPassEnds \/ BudgetSecondPass \/ BudgetReturns

SpecBudget == InitBudget /\ [][NextBudget]_vars

BudgetCovers ==
    /\ fetch_budget >= Len(source_limits) * min_per_source
    /\ \A i \in DOMAIN source_limits : source_limits[i] >= min_per_source

\* C22: when total_budget >= count * min_per_source and every source's own
\* limit is at least min_per_source, every source gets at least
\* min_per_source and at most its own limit, and the allocations sum to
\* min(total_budget, sum of the source limits).
C22_BudgetGuaranteesCoverage ==
    (bpc = "returned" /\ BudgetCovers) =>
        /\ DOMAIN budgeted = DOMAIN source_limits
        /\ \A i \in DOMAIN source_limits :
               budgeted[i] >= min_per_source /\ budgeted[i] <= source_limits[i]
        /\ SumValues(budgeted) = Min(fetch_budget, SumValues(source_limits))

C22_Witness ==
    /\ bpc = "returned" /\ BudgetCovers
    /\ Len(source_limits) = MaxBudgetSources
    /\ min_per_source = 2
    /\ fetch_budget > Len(source_limits) * min_per_source
    /\ SumValues(budgeted) = fetch_budget
    /\ fetch_budget < SumValues(source_limits)
    /\ \E i \in DOMAIN budgeted :
           budgeted[i] > min_per_source /\ budgeted[i] < source_limits[i]

(***************************************************************************)
(* api/r.py: _track_click in concurrent invocations of the handler         *)
(* Each invocation sends its HINCRBY and EXPIRE calls one after the other; *)
(* the store runs each call as one command, and calls of different         *)
(* invocations interleave in any order.                                    *)
(***************************************************************************)
MaxHandlers == 2

\* utc_date_key() of invocations on either side of midnight UTC.
DateKeys == {"20260101", "20260102"}

ClickParams ==
    {[k \in {"sid", "u", "pt"} |->
         CASE k = "sid" -> sid
           [] k = "u"   -> <<"https", ":", "/", "/", "e.com", "/", "a">>
           [] k = "pt"  -> pt] :
     sid \in {<<"s1">>, <<"s2">>}, pt \in {<<>>, <<"tool">>}}

\* One invocation: its date key and its list of store calls are fixed before
\* the first call is sent (198-203).
ClickHandler(params, date_key) ==
    [params |-> params, date_key |-> date_key, calls |-> TrackCalls(params),
     sent |-> 0, finished |-> FALSE]

ClickHandlerIds == 1..MaxHandlers

InitClicks ==
    /\ click_handlers \in
           [ClickHandlerIds ->
               {ClickHandler(p, d) : p \in ClickParams, d \in DateKeys}]
    /\ click_store = [d \in DateKeys |-> EmptyStore]
    /\ IdleNotClicks

NextClickCall(h) == click_handlers[h].calls[click_handlers[h].sent + 1]

ClickCallPending(h) ==
    /\ ~click_handlers[h].finished
    /\ click_handlers[h].sent < Len(click_handlers[h].calls)

ClickCallSent(h) ==
    /\ click_store' = [click_store EXCEPT ![click_handlers[h].date_key] =
                           ApplyCall(@, NextClickCall(h))]
    /\ click_handlers' = [click_handlers EXCEPT ![h].sent = @ + 1]
    /\ UNCHANGED notClicksVars

\* upstash.hincrby(key, field, 1)
ClickIncrements ==
    \E h \in ClickHandlerIds :
        /\ ClickCallPending(h)
        /\ NextClickCall(h).op = "hincrby"
        /\ ClickCallSent(h)

\* upstash.expire(key)
ClickExpires ==
    \E h \in ClickHandlerIds :
        /\ ClickCallPending(h)
        /\ NextClickCall(h).op = "expire"
        /\ ClickCallSent(h)

\* _track_click returns.
ClickFinishes ==
    \E h \in ClickHandlerIds :
        /\ ~click_handlers[h].finished
        /\ click_handlers[h].sent = Len(click_handlers[h].calls)
        /\ click_handlers' = [click_handlers EXCEPT ![h].finished = TRUE]
        /\ UNCHANGED <<click_store, notClicksVars>>

NextClicks == ClickIncrements \/ ClickExpires \/ ClickFinishes

SpecClicks == InitClicks /\ [][NextClicks]_vars

AllClicksFinished == \A h \in ClickHandlerIds : click_handlers[h].finished

ClicksOn(date_key) ==
    {h \in ClickHandlerIds : click_handlers[h].date_key = date_key}

ClicksOnSource(date_key, sid) ==
    {h \in ClicksOn(date_key) : click_handlers[h].params["sid"] = sid}

\* C23: once all concurrent handlers that track a click have finished, the
\* per-source count of (day, sid) is the number of tracked clicks with that
\* sid on that day and the day's meta total is the number of all tracked
\* clicks of the day, for every interleaving of their store calls.
C23_NoClickLostUnderConcurrency ==
    AllClicksFinished =>
        \A d \in DateKeys :
            /\ \A sid \in {<<"s1">>, <<"s2">>} :
                   CounterGet(click_store[d].source, sid)
                       = Cardinality(ClicksOnSource(d, sid))
            /\ CounterGet(click_store[d].meta, "total") = Cardinality(ClicksOn(d))

C23_Witness ==
    /\ AllClicksFinished
    /\ \E d \in DateKeys :
           /\ Cardinality(ClicksOnSource(d, <<"s1">>)) = MaxHandlers
           /\ CounterGet(click_store[d].source, <<"s1">>) = MaxHandlers
           /\ CounterGet(click_store[d].meta, "total") = MaxHandlers

(***************************************************************************)
(* api/cron_digest.py: _is_authorized and handler._handle                  *)
(***************************************************************************)
CronSecrets == {<<>>, <<" ">>, <<"k1">>, <<" ", "k1">>}

ManualTokens == {<<>>, <<"m1">>}

\* Values of the Authorization header; <<>> is a request without it.
AuthHeaders ==
    {<<>>, <<"k1">>, <<"Bearer", " ", "k1">>, <<"Bearer", " ", "k2">>,
     <<"Bearer", " ", "k1", " ">>}

CronPath == <<"/", "api", "/", "cron_digest">>

\* Request targets as BaseHTTPRequestHandler leaves them in self.path.
RequestPaths ==
    {CronPath,
     CronPath \o <<"?", "token", "=", "k1">>,
     CronPath \o <<"?", "token", "=", "k2">>,
     CronPath \o <<"?", "token", "=", "m1">>,
     CronPath \o <<"?", "token", "=", "k1", "%20">>,
     CronPath \o <<"?", "token", "=", "k2", "&", "token", "=", "k1">>,
     CronPath \o <<"?", "token", "=", "&", "token", "=", "k1">>,
     <<"http", ":", "/", "/", "[", "x">> \o CronPath}

\* _first_query_value: parse_qs(urlparse(path).query), first value, stripped.
FirstQueryValueOf(parsed, key) ==
    [raises |-> parsed.raises,
     value  |-> IF parsed.raises THEN <<>> ELSE QueryValue(parsed.query, key)]

FirstQueryValue(path, key) == FirstQueryValueOf(UrlParse(path), key)

BearerOf(secret) == <<"Bearer", " ">> \o secret

\* _is_authorized once the secret, the header and the token are read.
AuthorizedBy(cron_secret, manual_token, auth_header, query_token) ==
    IF cron_secret # <<>>
    THEN auth_header = BearerOf(cron_secret) \/ query_token = cron_secret
    ELSE manual_token = <<>> \/ query_token = manual_token

\* _is_authorized: the query token is read before the secret is looked at.
IsAuthorizedWith(e, req, token) ==
    [raises |-> token.raises,
     value  |-> ~token.raises
                /\ AuthorizedBy(Strip(e.cron_secret), Strip(e.manual_token),
                                Strip(req.authorization), token.value)]

IsAuthorized(e, req) == IsAuthorizedWith(e, req, FirstQueryValue(req.path, "token"))

InitCron ==
    /\ xpc = "requested"
    /\ cron_env \in [cron_secret : CronSecrets, manual_token : ManualTokens]
    /\ cron_request \in [authorization : AuthHeaders, path : RequestPaths]
    /\ cron_status = 0
    /\ digest_runs = 0
    /\ IdleNotCron

\* urlparse raises inside _is_authorized; _handle has no handler around it
\* and nothing is sent.
CronAuthorizationRaises ==
    /\ xpc = "requested"
    /\ IsAuthorized(cron_env, cron_request).raises
    /\ xpc' = "raised"
    /\ UNCHANGED <<cron_env, cron_request, cron_status, digest_runs, notCronVars>>

CronUnauthorized ==
    /\ xpc = "requested"
    /\ ~IsAuthorized(cron_env, cron_request).raises
    /\ ~IsAuthorized(cron_env, cron_request).value
    /\ cron_status' = 401
    /\ xpc' = "answered"
    /\ UNCHANGED <<cron_env, cron_request, digest_runs, notCronVars>>

\* _run_digest returns an exit code: 200 for 0, otherwise 500.
CronDigestReturns ==
    /\ xpc = "requested"
    /\ IsAuthorized(cron_env, cron_request).value
    /\ digest_runs' = digest_runs + 1
    /\ \E exit \in {0, 2, 6} : cron_status' = IF exit = 0 THEN 200 ELSE 500
    /\ xpc' = "answered"
    /\ UNCHANGED <<cron_env, cron_request, notCronVars>>

\* _run_digest raises: 500 with the traceback.
CronDigestRaises ==
    /\ xpc = "requested"
    /\ IsAuthorized(cron_env, cron_request).value
    /\ digest_runs' = digest_runs + 1
    /\ cron_status' = 500
    /\ xpc' = "answered"
    /\ UNCHANGED <<cron_env, cron_request, notCronVars>>

NextCron ==
    \/ CronAuthorizationRaises \/ CronUnauthorized
    \/ CronDigestReturns \/ CronDigestRaises

SpecCron == InitCron /\ [][NextCron]_vars

CronSecretConfigured == Strip(cron_env.cron_secret) # <<>>

\* The request carries the secret: in the Authorization header as
\* "Bearer <secret>" or as the token query parameter (surrounding
\* whitespace aside).
CarriesCronSecret ==
    \/ Strip(cron_request.authorization) = BearerOf(Strip(cron_env.cron_secret))
    \/ FirstQueryValue(cron_request.path, "token").value
           = Strip(cron_env.cron_secret)

\* C24: with CRON_SECRET configured the digest runs only for a request whose
\* Authorization header is "Bearer <CRON_SECRET>" or whose token query
\* parameter is CRON_SECRET; every other request is answered 401 and the
\* digest is not run.
C24_OnlyAuthorizedRequestsRunDigest ==
    (xpc # "requested" /\ CronSecretConfigured) =>
        /\ digest_runs > 0 => CarriesCronSecret
        /\ ~CarriesCronSecret => (cron_status = 401 /\ digest_runs = 0)

(***************************************************************************)
(* src/archive/store.py: save_digest_archive, list_archives and            *)
(* get_archive_item.  The store answers HSET, HGETALL, ZADD and ZREVRANGE  *)
(* as the FakeUpstash of tests/test_archive_store.py does.  generated_at   *)
(* is an instant counted in half milliseconds.                             *)
(***************************************************************************)
MaxSaves == 3

MaxArchiveDays == 180

MaxArchiveLimit == 50

ArchiveDates == {"2026-02-27", "2026-02-28", "2026-03-01"}

GeneratedAts == {0, 1, 2, 3}

Markdowns == {"A", "B"}

ListDays == {1, 2, 30}

ListLimits == {1, 2, 10}

\* _date_score: the digits of the report date as a number.
DateScore(report_date) ==
    CASE report_date = "2026-02-27" -> 20260227
      [] report_date = "2026-02-28" -> 20260228
      [] report_date = "2026-03-01" -> 20260301

\* _iso_to_epoch_ms: int(parsed.timestamp() * 1000) drops what is below a
\* millisecond.
IsoToEpochMs(generated_at) == generated_at \div 2

\* hashlib.sha256(markdown).hexdigest()[:8]
DigestHash(markdown) == IF markdown = "A" THEN "559aead0" ELSE "df7e70e5"

\* The order of the hash texts as strings.
HashRank(digest_hash) == IF digest_hash = "559aead0" THEN 1 ELSE 2

\* build_digest_id: f"{report_date}_{epoch_ms}_{digest_hash}"
BuildDigestId(report_date, generated_at, markdown) ==
    [date |-> report_date, epoch_ms |-> IsoToEpochMs(generated_at),
     hash |-> DigestHash(markdown)]

SavedDigest(report_date, generated_at, markdown) ==
    [date |-> report_date, generated_at |-> generated_at, markdown |-> markdown]

DigestIdOf(digest) ==
    BuildDigestId(digest.date, digest.generated_at, digest.markdown)

\* The member ZREVRANGE puts first: the highest score and, among equal
\* scores, the highest member.
TopMember(zset, rank, members) ==
    CHOOSE m \in members :
        \A o \in members :
            \/ zset[o] < zset[m]
            \/ zset[o] = zset[m] /\ rank[o] <= rank[m]

RECURSIVE ZRevOrderFrom(_, _, _, _)
ZRevOrderFrom(zset, rank, members, top) ==
    IF members = {top} THEN <<top>>
    ELSE <<top>> \o ZRevOrderFrom(zset, rank, members \ {top},
                                  TopMember(zset, rank, members \ {top}))

ZRevOrder(zset, rank) ==
    IF DOMAIN zset = {} THEN <<>>
    ELSE ZRevOrderFrom(zset, rank, DOMAIN zset, TopMember(zset, rank, DOMAIN zset))

RECURSIVE Reversed(_)
Reversed(s) == IF s = <<>> THEN <<>> ELSE Append(Reversed(Tail(s)), Head(s))

RangeOf(members, start, stop) ==
    IF stop < start THEN <<>>
    ELSE SubSeq(members, start + 1, Min(stop + 1, Len(members)))

\* ZRANGE key start stop
ZRangeAscending(zset, rank, start, stop) ==
    RangeOf(Reversed(ZRevOrder(zset, rank)), start, stop)

\* ZREVRANGE key start stop
ZRevRange(zset, rank, start, stop) == RangeOf(ZRevOrder(zset, rank), start, stop)

IdRank(ids) == [id \in ids |-> HashRank(id.hash)]

\* bounded_days and bounded_limit of list_archives.
BoundedDays(days) == Max(1, Min(days, MaxArchiveDays))

BoundedLimit(limit_per_day) == Max(1, Min(limit_per_day, MaxArchiveLimit))

\* The dates list_archives reads and the digest ids it reads for one date.
ListedDates(days) == ZRevRange(zset_dates, zset_dates, 0, BoundedDays(days) - 1)

DateZset(date) ==
    IF date \in DOMAIN zset_by_date THEN zset_by_date[date] ELSE EmptyMap

\* Mutant of ListedIds: the ids are asked for with ZRANGE.
ListedIdsAscending(date, limit_per_day) ==
    ZRangeAscending(DateZset(date), IdRank(DOMAIN DateZset(date)), 0,
                    BoundedLimit(limit_per_day) - 1)

ListedIds(date, limit_per_day) ==
    ZRevRange(DateZset(date), IdRank(DOMAIN DateZset(date)), 0,
              BoundedLimit(limit_per_day) - 1)

\* One item of a group, from the entry row of the digest.
ArchiveItem(row) ==
    [digest_id |-> row.digest_id, date |-> row.date,
     generated_at |-> row.generated_at]

ItemsOf(ids) ==
    [k \in DOMAIN SelectSeq(ids, LAMBDA id : id \in DOMAIN hashes) |->
        ArchiveItem(hashes[SelectSeq(ids, LAMBDA id : id \in DOMAIN hashes)[k]])]

GroupOf(date, limit_per_day) ==
    [date |-> date, items |-> ItemsOf(ListedIds(date, limit_per_day))]

\* list_archives: the groups of the listed dates that have items.
ListArchivesOf(dates, limit_per_day) ==
    SelectSeq([k \in DOMAIN dates |-> GroupOf(dates[k], limit_per_day)],
              LAMBDA g : g.items # <<>>)

ListArchives(days, limit_per_day) == ListArchivesOf(ListedDates(days), limit_per_day)

NoItem == [found |-> FALSE, digest_id |-> <<>>, markdown |-> ""]

\* get_archive_item
GetArchiveItem(digest_id) ==
    IF digest_id \in DOMAIN hashes
    THEN [found |-> TRUE, digest_id |-> digest_id,
          markdown |-> hashes[digest_id].markdown]
    ELSE NoItem

InitArchive ==
    /\ apc = "saving"
    /\ hashes = EmptyMap
    /\ zset_dates = EmptyMap
    /\ zset_by_date = EmptyMap
    /\ saved = {}
    /\ list_args = <<>>
    /\ list_result = <<>>
    /\ item_result = NoItem
    /\ IdleNotArchive

SaveAs(digest, digest_id) ==
    /\ hashes' = MapPut(hashes, digest_id,
                        [digest_id |-> digest_id, date |-> digest.date,
                         generated_at |-> digest.generated_at,
                         markdown |-> digest.markdown])
    /\ zset_by_date' = MapPut(zset_by_date, digest.date,
                              MapPut(DateZset(digest.date), digest_id,
                                     IsoToEpochMs(digest.generated_at)))
    /\ zset_dates' = MapPut(zset_dates, digest.date, DateScore(digest.date))
    /\ saved' = saved \cup {digest}

\* cron_digest builds the id and calls save_digest_archive.
SaveDigestArchive ==
    /\ apc = "saving"
    /\ Cardinality(saved) < MaxSaves
    /\ \E date \in ArchiveDates, at \in GeneratedAts, markdown \in Markdowns :
           SaveAs(SavedDigest(date, at, markdown),
                  BuildDigestId(date, at, markdown))
    /\ UNCHANGED <<apc, list_args, list_result, item_result, notArchiveVars>>

CallListArchives ==
    /\ apc = "saving"
    /\ \E days \in ListDays, limit_per_day \in ListLimits :
           /\ list_args' = [days |-> days, limit_per_day |-> limit_per_day]
           /\ list_result' = ListArchives(days, limit_per_day)
    /\ apc' = "listed"
    /\ UNCHANGED <<hashes, zset_dates, zset_by_date, saved, item_result,
                   notArchiveVars>>

CallGetArchiveItem ==
    /\ apc = "saving"
    /\ \E date \in ArchiveDates, at \in GeneratedAts, markdown \in Markdowns :
           item_result' = GetArchiveItem(BuildDigestId(date, at, markdown))
    /\ apc' = "got"
    /\ UNCHANGED <<hashes, zset_dates, zset_by_date, saved, list_args,
                   list_result, notArchiveVars>>

NextArchive == SaveDigestArchive \/ CallListArchives \/ CallGetArchiveItem

SpecArchive == InitArchive /\ [][NextArchive]_vars

SavedDates == {d.date : d \in saved}

SavedOn(date) == {d \in saved : d.date = date}

SavedIdsOn(date) == {DigestIdOf(d) : d \in SavedOn(date)}

GroupDates == {list_result[k].date : k \in DOMAIN list_result}

NewestDateFirst ==
    \A i, j \in DOMAIN list_result :
        i < j => DateScore(list_result[i].date) > DateScore(list_result[j].date)

ItemIsSavedDigest(item, date) ==
    \E d \in SavedOn(date) :
        DigestIdOf(d) = item.digest_id /\ d.generated_at = item.generated_at

ItemReturnsSavedMarkdown ==
    /\ \A d \in saved :
           /\ GetArchiveItem(DigestIdOf(d)).found
           /\ GetArchiveItem(DigestIdOf(d)).markdown = d.markdown
    /\ (apc = "got" /\ item_result.found) =>
           \E d \in saved : /\ DigestIdOf(d) = item_result.digest_id
                            /\ d.markdown = item_result.markdown

\* C26 as stated: list_archives returns one group per saved report date,
\* newest date first, each holding the digests saved for the date, newest
\* generated_at first, up to limit_per_day; get_archive_item returns the
\* markdown saved under the id.
C26_ListsEverySavedDateAndDigest ==
    /\ apc = "listed" =>
           /\ GroupDates = SavedDates
           /\ Len(list_result) = Cardinality(SavedDates)
           /\ NewestDateFirst
           /\ \A k \in DOMAIN list_result :
                  /\ Len(list_result[k].items)
                         = Min(list_args.limit_per_day,
                               Cardinality(SavedOn(list_result[k].date)))
                  /\ \A i \in DOMAIN list_result[k].items :
                         ItemIsSavedDigest(list_result[k].items[i],
                                           list_result[k].date)
                  /\ \A i, j \in DOMAIN list_result[k].items :
                         i < j => list_result[k].items[i].generated_at
                                      >= list_result[k].items[j].generated_at
    /\ ItemReturnsSavedMarkdown

GroupHoldsNewestIds(group) ==
    /\ Len(group.items) = Min(BoundedLimit(list_args.limit_per_day),
                              Cardinality(SavedIdsOn(group.date)))
    /\ \A i \in DOMAIN group.items : ItemIsSavedDigest(group.items[i], group.date)
    /\ \A i, j \in DOMAIN group.items :
           i < j => /\ group.items[i].digest_id # group.items[j].digest_id
                    /\ group.items[i].digest_id.epoch_ms
                           >= group.items[j].digest_id.epoch_ms
    /\ \A id \in SavedIdsOn(group.date) :
           \/ \E i \in DOMAIN group.items : group.items[i].digest_id = id
           \/ \A i \in DOMAIN group.items :
                  id.epoch_ms <= group.items[i].digest_id.epoch_ms

\* C26 as amended: list_archives returns one group for each of the newest
\* max(1, min(days, 180)) saved report dates, newest date first, each
\* holding up to max(1, min(limit_per_day, 50)) of the digest ids saved for
\* the date, newest first by generated_at taken to the millisecond;
\* get_archive_item returns the markdown saved under the id.
C26_ListsNewestDatesAndDigestIds ==
    /\ apc = "listed" =>
           /\ GroupDates \subseteq SavedDates
           /\ Len(list_result) = Min(BoundedDays(list_args.days),
                                     Cardinality(SavedDates))
           /\ NewestDateFirst
           /\ \A date \in SavedDates \ GroupDates :
                  \A shown \in GroupDates : DateScore(date) < DateScore(shown)
           /\ \A k \in DOMAIN list_result : GroupHoldsNewestIds(list_result[k])
    /\ ItemReturnsSavedMarkdown

C26_Witness ==
    /\ apc = "listed"
    /\ Cardinality(saved) = MaxSaves
    /\ Len(list_result) = 2
    /\ \E k \in DOMAIN list_result :
           /\ Len(list_result[k].items) = 2
           /\ list_result[k].items[1].digest_id.epoch_ms
                  > list_result[k].items[2].digest_id.epoch_ms

=============================================================================
